---- MODULE Spec2Model ----
(***************************************************************************)
(* State Tracker (uasp/runtime/state_manager.py) and Command Executor      *)
(* (uasp/runtime/executor.py) of the UASP runtime.                         *)
(*                                                                         *)
(* Python str values that the code inspects character by character (the    *)
(* syntax template, argument values, the built command) are sequences of   *)
(* one-character strings.  Dictionary keys and entity names are TLA+       *)
(* strings.  A dict is a function; d.get(k, default) is Get(d, k, default).*)
(***************************************************************************)
EXTENDS Integers, Sequences, FiniteSets, TLC

VARIABLES entities, prev, hist, last

\* SkillRuntime: its four dicts and the strict_version of its loader; rlast:
\* the last call of the runtime and what it returned or raised
VARIABLES skills, models, state, cache, strict_version, rlast

\* the inputs and the result of a call of QueryEngine.query
VARIABLES qin, qout

\* the document given to the version functions, and the last call on it
VARIABLES vin, vout

\* the command and the args given to an executor's build_command and
\* validate_args, and the last call on them
VARIABLES bin, bout

vars == <<entities, prev, hist, last>>

rtvars == <<skills, models, state, cache, strict_version, rlast>>

qvars == <<qin, qout>>

vvars == <<vin, vout>>

bvars == <<bin, bout>>

\* ---------------------------------------------------------------- bounds
\* longest captured stdout of the external process
MaxOutLen == 1

\* ------------------------------------------------------- Python helpers
\* Python's None: a value that is no str (every str is a sequence of
\* one-character strings)
None == << "<None>" >>

\* dict.get(k, default)
Get(d, k, default) == IF k \in DOMAIN d THEN d[k] ELSE default

\* the empty dict
EmptyDict == [k \in {} |-> None]

\* d[k] = v on a dict
Put(d, k, v) == [x \in DOMAIN d \cup {k} |-> IF x = k THEN v ELSE d[x]]

\* string constants
STR_True == << "T", "r", "u", "e" >>
STR_False == << "F", "a", "l", "s", "e" >>

\* ------------------------------------------------------------ Python str
\* a Python str is the sequence of its characters
Whitespace == {" ", "\t", "\n"}

\* the characters shlex.quote leaves unquoted: [\w@%+=:,./-], ASCII
SafeChars ==
  {"a","b","c","d","e","f","g","h","i","j","k","l","m","n","o","p","q","r",
   "s","t","u","v","w","x","y","z",
   "A","B","C","D","E","F","G","H","I","J","K","L","M","N","O","P","Q","R",
   "S","T","U","V","W","X","Y","Z","0","1","2","3","4","5","6","7","8","9",
   "_","@","%","+","=",":",",",".","/","-"}

RECURSIVE Join(_, _)
\* sep.join(parts)
Join(parts, sep) ==
  IF parts = << >> THEN << >>
  ELSE IF Len(parts) = 1 THEN parts[1]
  ELSE parts[1] \o sep \o Join(Tail(parts), sep)

\* s[i:] (0-based i = number of characters dropped)
Drop(s, n) == SubSeq(s, n + 1, Len(s))

\* s.startswith(p)
StartsWith(s, p) == Len(p) <= Len(s) /\ SubSeq(s, 1, Len(p)) = p

RECURSIVE LStripChars(_, _)
\* s.lstrip(chars)
LStripChars(s, chars) ==
  IF s # << >> /\ Head(s) \in chars THEN LStripChars(Tail(s), chars) ELSE s

RECURSIVE RStripChars(_, _)
RStripChars(s, chars) ==
  IF s # << >> /\ s[Len(s)] \in chars
  THEN RStripChars(SubSeq(s, 1, Len(s) - 1), chars) ELSE s

\* s.strip()
Strip(s) == RStripChars(LStripChars(s, Whitespace), Whitespace)

RECURSIVE Replace(_, _, _)
\* s.replace(old, new), old not empty
Replace(s, old, new) ==
  IF s = << >> THEN << >>
  ELSE IF StartsWith(s, old) THEN new \o Replace(Drop(s, Len(old)), old, new)
  ELSE << Head(s) >> \o Replace(Tail(s), old, new)

\* shlex.quote(s)
ShlexQuote(s) ==
  IF s = << >> THEN << "'", "'" >>
  ELSE IF \A i \in 1..Len(s) : s[i] \in SafeChars THEN s
  ELSE << "'" >> \o Replace(s, << "'" >>, << "'", "\"", "'", "\"", "'" >>) \o << "'" >>

\* first index >= from with s[index] = c, or 0
RECURSIVE Find(_, _, _)
Find(s, c, from) ==
  IF from > Len(s) THEN 0
  ELSE IF s[from] = c THEN from
  ELSE Find(s, c, from + 1)

\* first index >= from that is not whitespace (Len(s) + 1 at the end)
RECURSIVE SkipSpace(_, _)
SkipSpace(s, from) ==
  IF from <= Len(s) /\ s[from] \in Whitespace THEN SkipSpace(s, from + 1) ELSE from

\* `<[^>]+>` anchored at index q: index of the closing '>', or 0
PlaceholderEnd(s, q) ==
  IF q > Len(s) \/ s[q] # "<" THEN 0
  ELSE LET r == Find(s, ">", q + 1)
       IN  IF r >= q + 2 THEN r ELSE 0

\* `[^\]]*\]` anchored at index k: index of the closing ']', or 0
BracketEnd(s, k) == Find(s, "]", k)

RECURSIVE OptionalFrom(_, _, _)
\* the backtracking of `[^\]]*<` inside a bracket opened before index lo:
\* the greedy run ends before index p, '<' is tried from the right
OptionalFrom(s, lo, q) ==
  IF q < lo THEN 0
  ELSE LET r == PlaceholderEnd(s, q)
           t == IF r = 0 THEN 0 ELSE BracketEnd(s, r + 1)
       IN  IF t # 0 THEN t ELSE OptionalFrom(s, lo, q - 1)

\* `\s*\[[^\]]*<[^>]+>[^\]]*\]` anchored at index i: index of the last
\* matched character, or 0
MatchOptional(s, i) ==
  LET j == SkipSpace(s, i)
  IN  IF j > Len(s) \/ s[j] # "[" THEN 0
      ELSE LET p == Find(s, "]", j + 1)
               hi == IF p = 0 THEN Len(s) ELSE p - 1
           IN  OptionalFrom(s, j + 1, hi)

\* `\s*<[^>]+>` anchored at index i: index of the last matched character, or 0
MatchRequired(s, i) == PlaceholderEnd(s, SkipSpace(s, i))

RECURSIVE SubOptional(_, _)
\* re.sub(r"\s*\[[^\]]*<[^>]+>[^\]]*\]", "", s) from index i on
SubOptional(s, i) ==
  IF i > Len(s) THEN << >>
  ELSE LET t == MatchOptional(s, i)
       IN  IF t # 0 THEN SubOptional(s, t + 1)
           ELSE << s[i] >> \o SubOptional(s, i + 1)

\* the text from index i on, with every placeholder left in
KeepRequired(s, i) == SubSeq(s, i, Len(s))

RECURSIVE SubRequired(_, _)
\* re.sub(r"\s*<[^>]+>", "", s) from index i on
SubRequired(s, i) ==
  IF i > Len(s) THEN << >>
  ELSE LET t == MatchRequired(s, i)
       IN  IF t # 0 THEN SubRequired(s, t + 1)
           ELSE << s[i] >> \o SubRequired(s, i + 1)

\* ---------------------------------------------------------- argument values
\* an argument value is a str, a bool or a list of str
StrVal(s) == [t |-> "str", v |-> s]
BoolVal(b) == [t |-> "bool", v |-> b]
ListVal(l) == [t |-> "list", v |-> l]

\* str(value) of a str or a bool
Str(value) ==
  IF value.t = "bool"
  THEN (IF value.v THEN STR_True ELSE STR_False)
  ELSE value.v

\* truth value of an argument value
Truthy(value) ==
  IF value.t = "bool" THEN value.v ELSE value.v # << >>

RECURSIVE QuoteEach(_)
QuoteEach(l) ==
  IF l = << >> THEN << >> ELSE << ShlexQuote(Head(l)) >> \o QuoteEach(Tail(l))

\* the text a positional value is substituted as
Positional(value) ==
  IF value.t = "list" THEN Join(QuoteEach(value.v), << " " >>)
  ELSE ShlexQuote(Str(value))

\* ------------------------------------------------------ document values
\* a value of a parsed document is a dict, a list, a str, an int, a bool or
\* None; the tag t is the type that isinstance tests.  Keys of these dicts
\* are strs (sequences of characters).
DictVal(d) == [t |-> "dict", v |-> d]
IntVal(n) == [t |-> "int", v |-> n]
NoneVal == [t |-> "none", v |-> None]

\* the printable ASCII characters in code point order, from 32 (space);
\* "<grave>" holds the place of the grave accent (96), which no string of
\* the model contains
Ascii ==
  << " ", "!", "\"", "#", "$", "%", "&", "'", "(", ")", "*", "+", ",", "-", ".", "/",
     "0", "1", "2", "3", "4", "5", "6", "7", "8", "9", ":", ";", "<", "=", ">", "?",
     "@", "A", "B", "C", "D", "E", "F", "G", "H", "I", "J", "K", "L", "M", "N", "O",
     "P", "Q", "R", "S", "T", "U", "V", "W", "X", "Y", "Z", "[", "\\", "]", "^", "_",
     "<grave>", "a", "b", "c", "d", "e", "f", "g", "h", "i", "j", "k", "l", "m", "n", "o",
     "p", "q", "r", "s", "t", "u", "v", "w", "x", "y", "z", "{", "|", "}", "~" >>

\* ord(c) of a printable ASCII character
Ord(c) == 31 + (CHOOSE i \in 1..Len(Ascii) : Ascii[i] = c)

\* c.lower(): "A".."Z" are Ascii[34..59], the lower-case letters 32 further
LowerChar(c) ==
  IF \E i \in 34..59 : Ascii[i] = c
  THEN Ascii[(CHOOSE i \in 34..59 : Ascii[i] = c) + 32]
  ELSE c

\* s.lower()
Lower(s) == [i \in 1..Len(s) |-> LowerChar(s[i])]

RECURSIVE Split(_, _)
\* s.split(sep), sep one character
Split(s, sep) ==
  LET i == Find(s, sep, 1)
  IN  IF i = 0 THEN << s >>
      ELSE << SubSeq(s, 1, i - 1) >> \o Split(Drop(s, i), sep)

\* the decimal digits; DigitChars[d + 1] is the digit d
DigitChars == << "0", "1", "2", "3", "4", "5", "6", "7", "8", "9" >>

IsDigit(c) == \E i \in 1..10 : DigitChars[i] = c

RECURSIVE ParseDigits(_, _, _)
\* the value of digits with single underscores between them, -1 when s is
\* not of that form; after_digit: the character before s was a digit
ParseDigits(s, acc, after_digit) ==
  IF s = << >> THEN (IF after_digit THEN acc ELSE -1)
  ELSE IF IsDigit(Head(s))
  THEN ParseDigits(Tail(s), 10 * acc + (CHOOSE i \in 1..10 : DigitChars[i] = Head(s)) - 1, TRUE)
  ELSE IF Head(s) = "_" /\ after_digit THEN ParseDigits(Tail(s), acc, FALSE)
  ELSE -1

\* int(s): surrounding whitespace, one optional sign, digits.  ok is FALSE
\* where int raises ValueError.
int(s) ==
  LET b == Strip(s)
      signed == b # << >> /\ Head(b) \in {"+", "-"}
      n == ParseDigits(IF signed THEN Tail(b) ELSE b, 0, FALSE)
  IN  [ok |-> n >= 0, n |-> IF signed /\ Head(b) = "-" THEN 0 - n ELSE n]

RECURSIVE Digits(_)
\* str(n) of an int n >= 0
Digits(n) ==
  IF n < 10 THEN << DigitChars[n + 1] >>
  ELSE Digits(n \div 10) \o << DigitChars[(n % 10) + 1] >>

\* str(value) of a str, a bool or an int
StrOf(value) ==
  IF value.t = "int"
  THEN (IF value.v < 0 THEN << "-" >> \o Digits(0 - value.v) ELSE Digits(value.v))
  ELSE Str(value)

\* ---------------------------------------------------------------- fnmatch
\* fnmatch.translate, on `[` at pat[i - 1]: the index of the `]` that closes
\* the class (a leading `!` and a `]` right after it are part of the class),
\* 0 when there is none and the `[` stands for itself
ClassEnd(pat, i) ==
  LET j1 == IF i <= Len(pat) /\ pat[i] = "!" THEN i + 1 ELSE i
      j2 == IF j1 <= Len(pat) /\ pat[j1] = "]" THEN j1 + 1 ELSE j1
  IN  Find(pat, "]", j2)

RECURSIVE InClass(_, _)
\* c is in the character set stuff: x-y is the range from x to y (empty when
\* x > y), any other character stands for itself
InClass(c, stuff) ==
  IF stuff = << >> THEN FALSE
  ELSE IF Len(stuff) >= 3 /\ stuff[2] = "-"
  THEN \/ Ord(stuff[1]) <= Ord(c) /\ Ord(c) <= Ord(stuff[3])
       \/ InClass(c, Drop(stuff, 3))
  ELSE c = stuff[1] \/ InClass(c, Tail(stuff))

RECURSIVE fnmatchcase(_, _)
\* fnmatch.fnmatchcase(name, pat): the whole of name matches pat, where `*`
\* is any run of characters, `?` any one character, `[seq]` one character
\* of seq and `[!seq]` one character not of seq
fnmatchcase(name, pat) ==
  IF pat = << >> THEN name = << >>
  ELSE IF Head(pat) = "*"
  THEN fnmatchcase(name, Tail(pat)) \/ (name # << >> /\ fnmatchcase(Tail(name), pat))
  ELSE IF name = << >> THEN FALSE
  ELSE IF Head(pat) = "?" THEN fnmatchcase(Tail(name), Tail(pat))
  ELSE IF Head(pat) = "[" /\ ClassEnd(pat, 2) # 0
  THEN LET j == ClassEnd(pat, 2)
           stuff == SubSeq(pat, 2, j - 1)
       IN  /\ IF stuff[1] = "!" THEN ~ InClass(Head(name), Tail(stuff))
              ELSE InClass(Head(name), stuff)
           /\ fnmatchcase(Tail(name), Drop(pat, j))
  ELSE Head(pat) = Head(name) /\ fnmatchcase(Tail(name), Tail(pat))

\* ------------------------------------------------------------ QueryEngine
\* the keys "name" and "id"
KEY_name == << "n", "a", "m", "e" >>
KEY_id == << "i", "d" >>
KEY_meta == << "m", "e", "t", "a" >>

\* "unknown"
STR_unknown == << "u", "n", "k", "n", "o", "w", "n" >>

\* A filters dict is the sequence of its (key, pattern) pairs in insertion
\* order, the keys distinct; {} and None are both << >>.

\* QueryResult(skill, path, found, value, filters); value defaults to None
QueryResult(skill, path, found, value, filters) ==
  [skill |-> skill, path |-> path, found |-> found, value |-> value, filters |-> filters]

\* QueryEngine._matches_pattern
_matches_pattern(value, pattern) ==
  LET s == IF value.t = "str" THEN value.v
           ELSE IF value.t = "none" THEN << >>
           ELSE StrOf(value)
  IN  fnmatchcase(Lower(s), Lower(pattern))

\* item.get(key, "") of a dict item
FilterValue(item, key) == Get(item.v, key, StrVal(<< >>))

\* one pass of the loop of _apply_filters that keeps the items that are not
\* dicts: a variant of the code that the properties of the filters must tell
\* from it
ApplyFilter_keeping_non_dicts(items, key, pattern) ==
  SelectSeq(items, LAMBDA item :
                     item.t # "dict" \/ _matches_pattern(FilterValue(item, key), pattern))

\* one pass of the loop of _apply_filters
ApplyFilter(items, key, pattern) ==
  SelectSeq(items, LAMBDA item :
                     item.t = "dict" /\ _matches_pattern(FilterValue(item, key), pattern))

RECURSIVE _apply_filters(_, _)
\* QueryEngine._apply_filters
_apply_filters(items, filters) ==
  IF filters = << >> THEN items
  ELSE _apply_filters(ApplyFilter(items, Head(filters)[1], Head(filters)[2]), Tail(filters))

\* x.get(key) == segment, for a dict x and the str segment
FieldIs(x, key, segment) ==
  key \in DOMAIN x.v /\ x.v[key].t = "str" /\ x.v[key].v = segment

\* the list branch of query matching by name only: a variant of the code
\* that the properties of the name/id lookup must tell from it
Matches_by_name_only(current, segment) ==
  SelectSeq(current, LAMBDA x : x.t = "dict" /\ FieldIs(x, KEY_name, segment))

\* query, the list branch: the elements that match segment by name or id
Matches(current, segment) ==
  SelectSeq(current, LAMBDA x :
                       x.t = "dict" /\ (FieldIs(x, KEY_name, segment) \/ FieldIs(x, KEY_id, segment)))

RECURSIVE Traverse(_, _)
\* query, the loop over the segments, from the value current: the resolved
\* value, or found FALSE where the code returns a not-found result
Traverse(current, segments) ==
  IF segments = << >> THEN [found |-> TRUE, value |-> current]
  ELSE LET segment == Head(segments)
           matches == Matches(current.v, segment)
           idx == int(segment)
       IN  IF current.t = "dict"
           THEN (IF segment \in DOMAIN current.v
                 THEN Traverse(current.v[segment], Tail(segments))
                 ELSE [found |-> FALSE, value |-> NoneVal])
           ELSE IF current.t = "list"
           THEN (IF Len(matches) = 1 THEN Traverse(matches[1], Tail(segments))
                 ELSE IF Len(matches) > 1 THEN Traverse(ListVal(matches), Tail(segments))
                 ELSE IF idx.ok /\ 0 <= idx.n /\ idx.n < Len(current.v)
                 THEN Traverse(current.v[idx.n + 1], Tail(segments))
                 ELSE [found |-> FALSE, value |-> NoneVal])
           ELSE [found |-> FALSE, value |-> NoneVal]

\* QueryEngine.query(skill, path, filters, skill_name)
QueryEngine_query(skill, path, filters, skill_name) ==
  LET segments == IF path # << >> THEN Split(path, ".") ELSE << >>
      r == Traverse(skill, segments)
      meta == IF KEY_meta \in DOMAIN skill.v THEN skill.v[KEY_meta].v ELSE EmptyDict
      name == IF skill_name # None /\ skill_name # << >> THEN skill_name
              ELSE IF KEY_name \in DOMAIN meta THEN meta[KEY_name].v
              ELSE STR_unknown
  IN  IF ~ r.found THEN QueryResult(name, path, FALSE, NoneVal, filters)
      ELSE IF filters # << >> /\ r.value.t = "list"
      THEN QueryResult(name, path, TRUE, ListVal(_apply_filters(r.value.v, filters)), filters)
      ELSE QueryResult(name, path, TRUE, r.value, filters)

\* ---------------------------------------------------- the skill document
\* The document the State Tracker and the executor are constructed with, after
\* the cli skill of tests/conftest.py: `session` is declared in the state
\* section, `token` is not; `refresh` names `session` in creates and in
\* invalidates and lists its requirements in an order of its own.
Skill ==
  [ state |-> [ entities |-> << [name |-> "session"] >> ],
    global_flags |->
      << [ name |-> << "-", "-", "v", "e", "r", "b", "o", "s", "e" >>, short |-> << "-", "v" >>, type |-> "bool" ],
         [ name |-> << "-", "-", "c", "o", "n", "f", "i", "g" >>, type |-> "string" ] >>,
    commands |->
      [ init    |-> [ syntax |-> << "t", "o", "o", "l", " ", "i", "n", "i", "t", " ", "[", "-", "-", "c", "o", "n", "f", "i", "g", " ", "<", "p", "a", "t", "h", ">", "]" >>,
                      creates |-> << "session" >> ],
        fetch   |-> [ syntax |-> << "t", "o", "o", "l", " ", "f", "e", "t", "c", "h", " ", "<", "u", "r", "l", ">" >>,
                      args |-> << [ name |-> << "u", "r", "l" >>, type |-> "string", required |-> TRUE ] >>,
                      requires |-> << "session" >>,
                      creates |-> << "token" >> ],
        close   |-> [ syntax |-> << "t", "o", "o", "l", " ", "c", "l", "o", "s", "e" >>,
                      invalidates |-> << "session", "token" >> ],
        refresh |-> [ syntax |-> << "t", "o", "o", "l", " ", "r", "e", "f", "r", "e", "s", "h", " ", "<", "s", "c", "o", "p", "e", ">", " ", "[", "-", "-", "t", "a", "g", " ", "<", "t", "a", "g", ">", "]" >>,
                      args |-> << [ name |-> << "s", "c", "o", "p", "e" >>, type |-> "string", default |-> << "a", "l", "l" >> ] >>,
                      flags |-> << [ name |-> << "-", "-", "f", "o", "r", "c", "e" >>, long |-> << "-", "-", "f", "o", "r", "c", "e" >>, short |-> << "-", "f" >>, type |-> "bool" ] >>,
                      requires |-> << "token", "session" >>,
                      creates |-> << "session", "token" >>,
                      invalidates |-> << "session" >> ] ] ]

\* entity names used as inputs of create / invalidate / is_valid
EntityNames == {"session", "token"}

\* command names used as inputs of execute: the defined ones and one that
\* the document does not define
CommandPaths == DOMAIN Skill.commands \cup {"nonexistent"}

\* ------------------------------------------------------------ StateManager
\* StateEntity(name=name): value None, valid False
StateEntity(name) == [name |-> name, value |-> None, valid |-> FALSE]

RECURSIVE InitFrom(_, _)
InitFrom(defs, ents) ==
  IF defs = << >> THEN ents
  ELSE InitFrom(Tail(defs), Put(ents, Head(defs).name, StateEntity(Head(defs).name)))

\* StateManager._initialize_entities
_initialize_entities(skill) ==
  InitFrom(Get(Get(skill, "state", EmptyDict), "entities", << >>), EmptyDict)

\* create that marks the entity valid and leaves its value as it was
create_keepsValue(ents, entity_name, value) ==
  LET e1 == IF entity_name \notin DOMAIN ents
            THEN Put(ents, entity_name, StateEntity(entity_name))
            ELSE ents
  IN  [e1 EXCEPT ![entity_name].valid = TRUE]

\* StateManager.create
create(ents, entity_name, value) ==
  LET e1 == IF entity_name \notin DOMAIN ents
            THEN Put(ents, entity_name, StateEntity(entity_name))
            ELSE ents
  IN  [e1 EXCEPT ![entity_name].value = value, ![entity_name].valid = TRUE]

\* StateManager.invalidate
invalidate(ents, entity_name) ==
  IF entity_name \in DOMAIN ents
  THEN [ents EXCEPT ![entity_name].valid = FALSE]
  ELSE ents

\* StateManager.is_valid
is_valid(ents, entity_name) ==
  entity_name \in DOMAIN ents /\ ents[entity_name].valid

\* get_value that does not look at the validity flag
get_value_ignoresValid(ents, entity_name) ==
  IF entity_name \in DOMAIN ents
  THEN ents[entity_name].value
  ELSE None

\* StateManager.get_value
get_value(ents, entity_name) ==
  IF entity_name \in DOMAIN ents /\ ents[entity_name].valid
  THEN ents[entity_name].value
  ELSE None

RECURSIVE Missing(_, _)
Missing(ents, requires) ==
  IF requires = << >> THEN << >>
  ELSE (IF ~ is_valid(ents, Head(requires)) THEN << Head(requires) >> ELSE << >>)
       \o Missing(ents, Tail(requires))

\* check_requires that looks at the first requirement only
check_requires_headOnly(skill, ents, command_name) ==
  LET cmd == Get(Get(skill, "commands", EmptyDict), command_name, EmptyDict)
      requires == Get(cmd, "requires", << >>)
  IN  IF requires = << >> THEN << >> ELSE Missing(ents, << Head(requires) >>)

\* check_requires that returns at the first missing requirement
check_requires_stopsAtFirst(skill, ents, command_name) ==
  LET cmd == Get(Get(skill, "commands", EmptyDict), command_name, EmptyDict)
      missing == Missing(ents, Get(cmd, "requires", << >>))
  IN  IF missing = << >> THEN << >> ELSE << Head(missing) >>

\* StateManager.check_requires
check_requires(skill, ents, command_name) ==
  LET cmd == Get(Get(skill, "commands", EmptyDict), command_name, EmptyDict)
  IN  Missing(ents, Get(cmd, "requires", << >>))

RECURSIVE CreateAll(_, _, _)
CreateAll(ents, names, result) ==
  IF names = << >> THEN ents
  ELSE CreateAll(create(ents, Head(names), result), Tail(names), result)

RECURSIVE InvalidateAll(_, _)
InvalidateAll(ents, names) ==
  IF names = << >> THEN ents
  ELSE InvalidateAll(invalidate(ents, Head(names)), Tail(names))

\* apply_effects that handles the invalidates before the creates
apply_effects_invalidatesFirst(skill, ents, command_name, result) ==
  LET cmd == Get(Get(skill, "commands", EmptyDict), command_name, EmptyDict)
  IN  CreateAll(InvalidateAll(ents, Get(cmd, "invalidates", << >>)),
                Get(cmd, "creates", << >>), result)

\* StateManager.apply_effects
apply_effects(skill, ents, command_name, result) ==
  LET cmd == Get(Get(skill, "commands", EmptyDict), command_name, EmptyDict)
  IN  InvalidateAll(CreateAll(ents, Get(cmd, "creates", << >>), result),
                    Get(cmd, "invalidates", << >>))

\* reset that clears the values and leaves the validity flags
reset_valuesOnly(ents) ==
  [n \in DOMAIN ents |-> [ents[n] EXCEPT !.value = None]]

\* StateManager.reset
reset(ents) ==
  [n \in DOMAIN ents |-> [ents[n] EXCEPT !.valid = FALSE, !.value = None]]

\* --------------------------------------------------------- CommandExecutor
\* one pass of the loop over skill["global_flags"]
GlobalFlag(syntax, flag, args) ==
  LET flag_name == flag.name
      arg_key == LStripChars(flag_name, {"-"})
  IN  IF arg_key \in DOMAIN args
      THEN LET value == args[arg_key]
           IN  IF flag.type = "bool"
               THEN (IF Truthy(value) THEN syntax \o << " " >> \o flag_name ELSE syntax)
               ELSE syntax \o << " " >> \o flag_name \o << " " >> \o ShlexQuote(Str(value))
      ELSE syntax

\* one pass of the loop over cmd_def["flags"]
CommandFlag(syntax, flag, args) ==
  LET flag_name == IF "long" \in DOMAIN flag /\ flag.long # << >> THEN flag.long ELSE flag.name
      arg_key == LStripChars(flag_name, {"-"})
  IN  IF arg_key \in DOMAIN args
      THEN LET value == args[arg_key]
               use_name == IF "short" \in DOMAIN flag /\ flag.short # << >>
                           THEN flag.short ELSE flag_name
           IN  IF flag.type = "bool"
               THEN (IF Truthy(value) THEN syntax \o << " " >> \o use_name ELSE syntax)
               ELSE syntax \o << " " >> \o flag_name \o << " " >> \o ShlexQuote(Str(value))
      ELSE syntax

\* one pass of the loop over cmd_def["args"]
PositionalArg(syntax, arg, args) ==
  LET arg_name == arg.name
      placeholder == << "<" >> \o arg_name \o << ">" >>
  IN  IF arg_name \in DOMAIN args
      THEN Replace(syntax, placeholder, Positional(args[arg_name]))
      ELSE IF "default" \in DOMAIN arg
      THEN Replace(syntax, placeholder, ShlexQuote(arg.default))
      ELSE syntax

RECURSIVE GlobalFlags(_, _, _)
GlobalFlags(syntax, flags, args) ==
  IF flags = << >> THEN syntax
  ELSE GlobalFlags(GlobalFlag(syntax, Head(flags), args), Tail(flags), args)

RECURSIVE CommandFlags(_, _, _)
CommandFlags(syntax, flags, args) ==
  IF flags = << >> THEN syntax
  ELSE CommandFlags(CommandFlag(syntax, Head(flags), args), Tail(flags), args)

RECURSIVE PositionalArgs(_, _, _)
PositionalArgs(syntax, arglist, args) ==
  IF arglist = << >> THEN syntax
  ELSE PositionalArgs(PositionalArg(syntax, Head(arglist), args), Tail(arglist), args)

\* CommandExecutor._build_command
_build_command(skill, cmd_def, args) ==
  LET s1 == GlobalFlags(cmd_def.syntax, Get(skill, "global_flags", << >>), args)
      s2 == CommandFlags(s1, Get(cmd_def, "flags", << >>), args)
      s3 == PositionalArgs(s2, Get(cmd_def, "args", << >>), args)
      s4 == SubOptional(s3, 1)
      s5 == SubRequired(s4, 1)
  IN  Strip(s5)

\* captured outputs of the external process
StdoutSet == UNION { [1..n -> {"k"}] : n \in 0..MaxOutLen }

\* the timeout argument, by its str(): None or a number of seconds
Timeouts == {"None", "30"}

\* the ways the external process can end: an exit with a return code and a
\* captured stdout, subprocess.TimeoutExpired (only with a timeout), or
\* another exception
ProcOutcomes(timeout) ==
  [kind : {"exit"}, returncode : {0}, stdout : StdoutSet, stderr : {""}]
  \cup {[kind |-> "exit", returncode |-> 1, stdout |-> << >>, stderr |-> "failed"],
        [kind |-> "exit", returncode |-> 2, stdout |-> << "k" >>, stderr |-> "usage"],
        [kind |-> "error", returncode |-> 0, stdout |-> << >>, stderr |-> "spawn failed"]}
  \cup (IF timeout # "None"
        THEN {[kind |-> "timeout", returncode |-> 0, stdout |-> << >>, stderr |-> ""]}
        ELSE {})

\* subprocess.run is not called
NoProc == [kind |-> "none", returncode |-> 0, stdout |-> << >>, stderr |-> ""]

\* args dictionaries given to execute
ArgsSet ==
  { EmptyDict,
    (<< "u", "r", "l" >> :> StrVal(<< "a", " ", "b" >>))
      @@ (<< "c", "o", "n", "f", "i", "g" >> :> StrVal(<< "/", "c" >>))
      @@ (<< "f", "o", "r", "c", "e" >> :> BoolVal(TRUE)) }

\* _build_command of every defined command on every args dictionary
\* (evaluated once)
BuiltCommand ==
  [c \in DOMAIN Skill.commands |->
     [a \in ArgsSet |-> _build_command(Skill, Skill.commands[c], a)]]

\* "[DRY RUN] Would execute: "
DryRunPrefix == << "[", "D", "R", "Y", " ", "R", "U", "N", "]", " ", "W", "o", "u", "l", "d", " ", "e", "x", "e", "c", "u", "t", "e", ":", " " >>

\* ExecutionResult(success, stdout, stderr, returncode, command)
ExecutionResult(success, stdout, stderr, returncode, command) ==
  [kind |-> "return", success |-> success, stdout |-> stdout, stderr |-> stderr,
   returncode |-> returncode, command |-> command, entity |-> "", missing |-> << >>]

\* raise InvalidStateError(entity, missing=missing)
InvalidStateError(entity, missing) ==
  [kind |-> "InvalidStateError", success |-> FALSE, stdout |-> << >>, stderr |-> "",
   returncode |-> 0, command |-> << >>, entity |-> entity, missing |-> missing]

\* no call has returned yet
NoResult ==
  [kind |-> "none", success |-> FALSE, stdout |-> << >>, stderr |-> "",
   returncode |-> 0, command |-> << >>, entity |-> "", missing |-> << >>]

\* the commands of the document that execute treats as defined
\* (`if not cmd_def`: an absent or an empty definition is unknown)
Known(skill, command_path) ==
  LET commands == Get(skill, "commands", EmptyDict)
  IN  command_path \in DOMAIN commands /\ DOMAIN commands[command_path] # {}

\* the outcome of a call of execute: the entities after it, whether
\* subprocess.run was called, and the result or the exception
Outcome(ents, ran, result) == [entities |-> ents, ran |-> ran, result |-> result]

\* execute of an unknown command that raises, as build_command does
UnknownCommand_raises(ents, command_path) ==
  Outcome(ents, FALSE,
          [NoResult EXCEPT !.kind = "ValueError",
                           !.stderr = "Unknown command: " \o command_path])

\* execute, `if not cmd_def`
UnknownCommand(ents, command_path) ==
  Outcome(ents, FALSE,
          ExecutionResult(FALSE, << >>, "Unknown command: " \o command_path, 1, << >>))

\* a dry run that applies the effects of the command it previews
DryRun_appliesEffects(ents, command_path, cmd_str) ==
  Outcome(apply_effects(Skill, ents, command_path, DryRunPrefix \o cmd_str), FALSE,
          ExecutionResult(TRUE, DryRunPrefix \o cmd_str, "", 0, cmd_str))

\* execute, `if dry_run`
DryRun(ents, command_path, cmd_str) ==
  Outcome(ents, FALSE, ExecutionResult(TRUE, DryRunPrefix \o cmd_str, "", 0, cmd_str))

\* running the process and applying the effects whatever the return code
RunProcess_alwaysApplies(ents, command_path, cmd_str, timeout, proc) ==
  IF proc.kind = "exit"
  THEN Outcome(apply_effects(Skill, ents, command_path, proc.stdout), TRUE,
               ExecutionResult(proc.returncode = 0, proc.stdout, proc.stderr,
                               proc.returncode, cmd_str))
  ELSE IF proc.kind = "timeout"
  THEN Outcome(ents, TRUE,
               ExecutionResult(FALSE, proc.stdout,
                               "Command timed out after " \o timeout \o "s", -1, cmd_str))
  ELSE Outcome(ents, TRUE, ExecutionResult(FALSE, << >>, proc.stderr, -1, cmd_str))

\* execute, the try block: subprocess.run, the effects of a success, and
\* the two except clauses.  proc is what the external process does.
RunProcess(ents, command_path, cmd_str, timeout, proc) ==
  IF proc.kind = "exit"
  THEN Outcome(IF proc.returncode = 0
               THEN apply_effects(Skill, ents, command_path, proc.stdout)
               ELSE ents,
               TRUE,
               ExecutionResult(proc.returncode = 0, proc.stdout, proc.stderr,
                               proc.returncode, cmd_str))
  ELSE IF proc.kind = "timeout"
  THEN Outcome(ents, TRUE,
               ExecutionResult(FALSE, proc.stdout,
                               "Command timed out after " \o timeout \o "s", -1, cmd_str))
  ELSE Outcome(ents, TRUE, ExecutionResult(FALSE, << >>, proc.stderr, -1, cmd_str))

\* execute that stops a dry run right after building, before the
\* requirements are checked
execute_dryRunFirst(ents, command_path, args, dry_run, timeout, proc) ==
  LET missing == check_requires(Skill, ents, command_path)
      cmd_str == BuiltCommand[command_path][args]
  IN  IF ~ Known(Skill, command_path) THEN UnknownCommand(ents, command_path)
      ELSE IF dry_run THEN DryRun(ents, command_path, cmd_str)
      ELSE IF missing # << >>
      THEN Outcome(ents, FALSE, InvalidStateError(missing[1], missing))
      ELSE RunProcess(ents, command_path, cmd_str, timeout, proc)

\* CommandExecutor.execute on the executor of Skill.  proc is what the
\* external process does if it is run.
execute(ents, command_path, args, dry_run, timeout, proc) ==
  LET missing == check_requires(Skill, ents, command_path)
      cmd_str == BuiltCommand[command_path][args]
  IN  IF ~ Known(Skill, command_path) THEN UnknownCommand(ents, command_path)
      ELSE IF missing # << >>
      THEN Outcome(ents, FALSE, InvalidStateError(missing[1], missing))
      ELSE IF dry_run THEN DryRun(ents, command_path, cmd_str)
      ELSE RunProcess(ents, command_path, cmd_str, timeout, proc)

\* execute gets as far as subprocess.run
Runs(ents, command_path, dry_run) ==
  /\ Known(Skill, command_path)
  /\ check_requires(Skill, ents, command_path) = << >>
  /\ ~ dry_run

\* ------------------------------------------------------------ history
\* hist[e].live: e has been created and neither invalidated nor reset since
\* its most recent create; hist[e].value: the value given to that create
\* (None while e is not live).  It records the calls in the order the code
\* makes them.
HistInit == [e \in EntityNames |-> [live |-> FALSE, value |-> None]]

HistCreate(h, e, v) == [h EXCEPT ![e] = [live |-> TRUE, value |-> v]]

HistInvalidate(h, e) == [h EXCEPT ![e] = [live |-> FALSE, value |-> None]]

HistReset(h) == [e \in EntityNames |-> [live |-> FALSE, value |-> None]]

RECURSIVE HistCreateAll(_, _, _)
HistCreateAll(h, names, v) ==
  IF names = << >> THEN h
  ELSE HistCreateAll(HistCreate(h, Head(names), v), Tail(names), v)

RECURSIVE HistInvalidateAll(_, _)
HistInvalidateAll(h, names) ==
  IF names = << >> THEN h
  ELSE HistInvalidateAll(HistInvalidate(h, Head(names)), Tail(names))

\* the calls of apply_effects: the creates, then the invalidates
HistEffects(h, cmd, v) ==
  HistInvalidateAll(HistCreateAll(h, Get(cmd, "creates", << >>), v),
                    Get(cmd, "invalidates", << >>))

\* ------------------------------------------------------------ inputs
\* values given to create: None and the captured outputs
Values == {None} \cup StdoutSet

\* the record of the last call: its inputs, whether subprocess.run was
\* called and what the process did, and the result or exception
Call(op, command_path, args, dry_run, proc, ran, result) ==
  [op |-> op, command_path |-> command_path, args |-> args, dry_run |-> dry_run,
   proc |-> proc, ran |-> ran, result |-> result]

NoCall(op) == Call(op, "", EmptyDict, FALSE, NoProc, FALSE, NoResult)

\* ------------------------------------------------------------ actions
\* entities: StateManager.entities; prev: the entities before the last
\* call; hist: the history of creates and invalidations; last: the last call

\* no StateManager is under study on its own: the variables of Spec at rest
ExecutorIdle ==
  entities = EmptyDict /\ prev = EmptyDict /\ hist = EmptyDict /\ last = None

\* no SkillRuntime has been constructed: the variables of SpecRuntime at rest
RuntimeIdle ==
  /\ skills = EmptyDict /\ models = EmptyDict /\ state = EmptyDict /\ cache = EmptyDict
  /\ strict_version = FALSE /\ rlast = None

\* no query is under study on its own: the variables of SpecQuery at rest
QueryIdle == qin = None /\ qout = None

\* no document is under study for its version: the variables of SpecVersion
\* at rest
VersionIdle == vin = None /\ vout = None

\* no executor is under study for build_command and validate_args: the
\* variables of SpecBuild at rest
BuildIdle == bin = None /\ bout = None

\* StateManager(skill_dict), shared with CommandExecutor(skill_dict, state)
Init ==
  /\ entities = _initialize_entities(Skill)
  /\ prev = _initialize_entities(Skill)
  /\ hist = HistInit
  /\ last = NoCall("new")
  /\ RuntimeIdle
  /\ QueryIdle
  /\ VersionIdle
  /\ BuildIdle

\* state.create(entity_name, value)
Create(entity_name, value) ==
  /\ entities' = create(entities, entity_name, value)
  /\ prev' = entities
  /\ hist' = HistCreate(hist, entity_name, value)
  /\ last' = NoCall("create")
  /\ UNCHANGED <<rtvars, qvars, vvars, bvars>>

\* state.invalidate(entity_name)
Invalidate(entity_name) ==
  /\ entities' = invalidate(entities, entity_name)
  /\ prev' = entities
  /\ hist' = HistInvalidate(hist, entity_name)
  /\ last' = NoCall("invalidate")
  /\ UNCHANGED <<rtvars, qvars, vvars, bvars>>

\* state.reset()
Reset ==
  /\ entities' = reset(entities)
  /\ prev' = entities
  /\ hist' = HistReset(hist)
  /\ last' = NoCall("reset")
  /\ UNCHANGED <<rtvars, qvars, vvars, bvars>>

\* executor.execute(command_path, args, dry_run, timeout); the external
\* process, when the call runs it, ends in one of ProcOutcomes
Execute(command_path, args, dry_run, timeout) ==
  \E proc \in IF Runs(entities, command_path, dry_run)
              THEN ProcOutcomes(timeout) ELSE {NoProc} :
    LET r == execute(entities, command_path, args, dry_run, timeout, proc)
    IN  /\ entities' = r.entities
        /\ prev' = entities
        /\ hist' = IF r.ran /\ proc.kind = "exit" /\ proc.returncode = 0
                   THEN HistEffects(hist, Skill.commands[command_path], proc.stdout)
                   ELSE hist
        /\ last' = Call("execute", command_path, args, dry_run, proc, r.ran, r.result)
        /\ UNCHANGED <<rtvars, qvars, vvars, bvars>>

Next ==
  \/ \E e \in EntityNames, v \in Values : Create(e, v)
  \/ \E e \in EntityNames : Invalidate(e)
  \/ Reset
  \/ \E c \in CommandPaths, a \in ArgsSet, d \in BOOLEAN, t \in Timeouts :
        Execute(c, a, d, t)

Spec == Init /\ [][Next]_<<vars, rtvars, qvars, vvars, bvars>>

\* ------------------------------------------------------------ properties
\* x occurs in the sequence s
InSeq(x, s) == \E i \in 1..Len(s) : s[i] = x

\* the lists of the command of the last call
LastCmd == Get(Skill.commands, last.command_path, EmptyDict)
LastRequires == Get(LastCmd, "requires", << >>)
LastCreates == Get(LastCmd, "creates", << >>)
LastInvalidates == Get(LastCmd, "invalidates", << >>)

\* the last call was execute of a command the document defines
LastKnown == last.op = "execute" /\ last.command_path \in DOMAIN Skill.commands

\* some required entity of the last call was not valid at call time
LastUnmet == \E i \in 1..Len(LastRequires) : ~ is_valid(prev, LastRequires[i])

\* the last call was a non-dry-run execute whose process returned code 0
LastSucceeded ==
  /\ LastKnown /\ ~ last.dry_run /\ last.ran
  /\ last.proc.kind = "exit" /\ last.proc.returncode = 0

\* the last call was a non-dry-run execute whose process failed
LastFailed ==
  /\ LastKnown /\ ~ last.dry_run /\ last.ran
  /\ \/ last.proc.kind \in {"timeout", "error"}
     \/ last.proc.kind = "exit" /\ last.proc.returncode # 0

\* C1: a non-dry-run execute of a known command with a required entity that
\* is not valid at call time signals InvalidState, does not call the external
\* process and leaves the entities as they were.
C1_UnmetRequirementAborts ==
  (LastKnown /\ ~ last.dry_run /\ LastUnmet)
    => /\ last.result.kind = "InvalidStateError"
       /\ ~ last.ran
       /\ entities = prev

\* C1 happens: a non-dry-run refresh with a valid first requirement and an
\* invalid second one was refused.
C1_Witness ==
  /\ LastKnown /\ ~ last.dry_run /\ LastUnmet
  /\ last.command_path = "refresh"
  /\ is_valid(prev, "token") /\ ~ is_valid(prev, "session")
  /\ last.result.kind = "InvalidStateError"

\* C2 as stated: after a non-dry-run execute whose process returned code 0,
\* every entity of `creates` is valid with the captured stdout as its value,
\* whatever `invalidates` names.
C2_EveryCreateValid ==
  LastSucceeded
    => \A i \in 1..Len(LastCreates) :
         /\ is_valid(entities, LastCreates[i])
         /\ get_value(entities, LastCreates[i]) = last.proc.stdout

\* C2 amended: after a non-dry-run execute whose process returned code 0,
\* every entity of `creates` that `invalidates` does not name is valid with
\* the captured stdout as its value, predeclared or not; an entity named in
\* both lists ends invalid, with the captured stdout stored.
C2_CreatesNotInvalidated ==
  LastSucceeded
    => \A i \in 1..Len(LastCreates) :
         LET e == LastCreates[i]
         IN  IF InSeq(e, LastInvalidates)
             THEN /\ ~ is_valid(entities, e)
                  /\ entities[e].value = last.proc.stdout
             ELSE /\ is_valid(entities, e)
                  /\ get_value(entities, e) = last.proc.stdout

\* C2 happens: a successful fetch created `token`, which the document does
\* not declare and which the tracker did not know, with a non-empty stdout.
C2_Witness ==
  /\ LastSucceeded
  /\ last.command_path = "fetch"
  /\ "token" \notin DOMAIN prev
  /\ get_value(entities, "token") = last.proc.stdout
  /\ last.proc.stdout # << >>

\* C3: after a non-dry-run execute whose process returned code 0, every
\* entity of `invalidates` is not valid and exposes no value, whether or not
\* it was valid before and whether or not `creates` names it too.
C3_InvalidatesApplied ==
  LastSucceeded
    => \A i \in 1..Len(LastInvalidates) :
         /\ ~ is_valid(entities, LastInvalidates[i])
         /\ get_value(entities, LastInvalidates[i]) = None

\* C3 happens: a successful command invalidated an entity that was valid
\* before the call and that its `creates` names too.
C3_Witness ==
  /\ LastSucceeded
  /\ \E i \in 1..Len(LastInvalidates) :
       /\ is_valid(prev, LastInvalidates[i])
       /\ InSeq(LastInvalidates[i], LastCreates)
       /\ ~ is_valid(entities, LastInvalidates[i])

\* C4: execute with dry_run=true never calls the external process and never
\* changes the State Tracker, for every command and args.
C4_DryRunChangesNothing ==
  (last.op = "execute" /\ last.dry_run) => (~ last.ran /\ entities = prev)

\* C4 happens: a dry run of a command with effects returned its preview.
C4_Witness ==
  /\ LastKnown /\ last.dry_run
  /\ last.result.kind = "return" /\ last.result.success
  /\ LastCreates # << >> /\ LastInvalidates # << >>
  /\ ~ last.ran /\ entities = prev

\* C5 as stated: a dry run of a known command stops right after BUILD with
\* success=true, returncode 0 and the preview of the built command, and
\* never signals InvalidState.
C5_DryRunSkipsPreconditions ==
  (LastKnown /\ last.dry_run)
    => /\ last.result.kind = "return"
       /\ last.result.success
       /\ last.result.returncode = 0
       /\ last.result.stdout = DryRunPrefix \o last.result.command

\* C5 amended: the requirements are checked before BUILD and before the
\* dry-run stop.  A dry run of a known command whose required entities are
\* all valid returns success=true, returncode 0, the built command and its
\* preview; a dry run of a known command with a required entity that is not
\* valid signals InvalidState.
C5_DryRunAfterPreconditions ==
  (LastKnown /\ last.dry_run)
    => IF LastUnmet
       THEN last.result.kind = "InvalidStateError"
       ELSE LET cmd_str == _build_command(Skill, LastCmd, last.args)
            IN  /\ last.result.kind = "return"
                /\ last.result.success
                /\ last.result.returncode = 0
                /\ last.result.command = cmd_str
                /\ last.result.stdout = DryRunPrefix \o cmd_str

\* C5 happens: a dry run with arguments of a command whose requirements were
\* all valid returned its preview.
C5_Witness ==
  /\ LastKnown /\ last.dry_run
  /\ LastRequires # << >>
  /\ ~ LastUnmet
  /\ last.args # EmptyDict
  /\ last.result.success

C7_UnknownCommand ==
  (last.op = "execute" /\ last.command_path \notin DOMAIN Skill.commands)
    => /\ last.result.kind = "return"
       /\ ~ last.result.success
       /\ last.result.returncode # 0
       /\ ~ last.ran
       /\ entities = prev

\* C7 happens: a non-dry-run execute of an undefined command returned while
\* an entity was valid.
C7_Witness ==
  /\ last.op = "execute" /\ last.command_path \notin DOMAIN Skill.commands
  /\ ~ last.dry_run
  /\ last.result.kind = "return"
  /\ is_valid(entities, "session")

\* C8: is_valid(e) is true exactly when e has been created (by create or by
\* a `creates` effect) and neither invalidated nor reset since its most
\* recent create; a name that was never declared and never created is
\* invalid.
C8_ValidIffCreatedSince ==
  /\ \A e \in EntityNames : is_valid(entities, e) <=> hist[e].live
  /\ ~ is_valid(entities, "undeclared")

\* C8 happens: create made a name valid that the document does not declare
\* and the tracker did not know.
C8_Witness ==
  /\ last.op = "create"
  /\ "token" \notin DOMAIN prev
  /\ is_valid(entities, "token")
  /\ ~ is_valid(entities, "session")

\* C9: get_value(e) is None whenever e is not valid and is the value given
\* to the most recent create of e when e is valid; invalidate keeps the
\* stored values and reset clears them.
C9_ValueOnlyWhileValid ==
  /\ \A e \in EntityNames :
       get_value(entities, e) = (IF is_valid(entities, e) THEN hist[e].value ELSE None)
  /\ last.op = "invalidate"
       => /\ DOMAIN entities = DOMAIN prev
          /\ \A e \in DOMAIN prev : entities[e].value = prev[e].value
  /\ last.op = "reset" => \A e \in DOMAIN entities : entities[e].value = None

\* C9 happens: invalidate hid a value that is still stored.
C9_Witness ==
  /\ last.op = "invalidate"
  /\ \E e \in DOMAIN entities :
       /\ is_valid(prev, e) /\ ~ is_valid(entities, e)
       /\ entities[e].value # None
       /\ get_value(entities, e) = None

\* a requirement that is not valid now / was not valid at the last call
UnmetNow(r) == ~ is_valid(entities, r)
UnmetBefore(r) == ~ is_valid(prev, r)

\* C10: check_requires returns exactly the entries of the declared `requires`
\* list that are not valid, in declared order, and the empty list exactly
\* when every required entity is valid; the InvalidState of execute carries
\* that list and names its first element.
C10_MissingInDeclaredOrder ==
  /\ \A c \in DOMAIN Skill.commands :
       LET requires == Get(Skill.commands[c], "requires", << >>)
           missing == check_requires(Skill, entities, c)
       IN  /\ missing = SelectSeq(requires, UnmetNow)
           /\ missing = << >> <=> \A i \in 1..Len(requires) : is_valid(entities, requires[i])
  /\ last.result.kind = "InvalidStateError"
       => /\ last.result.missing = SelectSeq(LastRequires, UnmetBefore)
          /\ last.result.missing # << >>
          /\ last.result.entity = last.result.missing[1]

\* C10 happens: execute was refused with two missing requirements, in the
\* order the command declares them.
C10_Witness ==
  /\ last.result.kind = "InvalidStateError"
  /\ last.result.missing = << "token", "session" >>
  /\ last.result.entity = "token"

\* ------------------------------------------------------------ SkillLoader
\* keys and constants of the documents
KEY_version == << "v", "e", "r", "s", "i", "o", "n" >>
KEY_type == << "t", "y", "p", "e" >>
KEY_decisions == << "d", "e", "c", "i", "s", "i", "o", "n", "s" >>
KEY_when == << "w", "h", "e", "n" >>
KEY_then == << "t", "h", "e", "n" >>
STR_cli == << "c", "l", "i" >>

\* the alternatives of meta.type
SkillTypes == {<< "k", "n", "o", "w", "l", "e", "d", "g", "e" >>, STR_cli, << "a", "p", "i" >>, << "h", "y", "b", "r", "i", "d" >>}

\* a call returns v, or raises the exception kind with the message or
\* argument v
Return(v) == [kind |-> "return", value |-> v]
Raise(kind, v) == [kind |-> kind, value |-> v]

\* Meta.validate_name: re.match(r"^[a-z][a-z0-9-]*$", v); `$` also matches
\* before one newline at the end
validate_name(v) ==
  LET b == IF v # << >> /\ v[Len(v)] = "\n" THEN SubSeq(v, 1, Len(v) - 1) ELSE v
  IN  /\ b # << >>
      /\ \E i \in 66..91 : Ascii[i] = b[1]
      /\ \A k \in 2..Len(b) : b[k] = "-" \/ IsDigit(b[k]) \/ \E i \in 66..91 : Ascii[i] = b[k]

\* SchemaValidator.validate_or_raise accepts the dict: it has a meta dict
\* with a name of the name pattern, a version and one of the types
SchemaValid(d) ==
  /\ KEY_meta \in DOMAIN d.v
  /\ d.v[KEY_meta].t = "dict"
  /\ LET meta == d.v[KEY_meta].v
     IN  /\ {KEY_name, KEY_version, KEY_type} \subseteq DOMAIN meta
         /\ \A k \in {KEY_name, KEY_version, KEY_type} : meta[k].t = "str"
         /\ validate_name(meta[KEY_name].v)
         /\ meta[KEY_type].v \in SkillTypes

\* version._deep_copy_without_version
_deep_copy_without_version(skill_dict) ==
  DictVal([key \in DOMAIN skill_dict.v |->
             IF key = KEY_meta
             THEN DictVal([k \in DOMAIN skill_dict.v[key].v \ {KEY_version} |->
                             skill_dict.v[key].v[k]])
             ELSE skill_dict.v[key]])

\* a decision, and a document with a meta section and decisions.  Every
\* document of the runtime also has the state, global_flags and commands
\* sections of Skill, which the tree leaves out: the queries of the model
\* do not enter them, and the State Tracker and the executor of a document
\* are those of Skill.
Decision(when, then) ==
  DictVal((KEY_when :> StrVal(when)) @@ (KEY_then :> StrVal(then)))

Document(name, version, decisions) ==
  DictVal((KEY_meta :> DictVal((KEY_name :> StrVal(name))
                               @@ (KEY_version :> StrVal(version))
                               @@ (KEY_type :> StrVal(STR_cli))))
          @@ (KEY_decisions :> ListVal(decisions)))

DecisionsV1 ==
  << Decision(<< "x" >>, << "y" >>),
     Decision(<< "w" >>, << "y", "&", "w", "h", "e", "n", "=", "x" >>) >>

DecisionsV2 == << Decision(<< "x" >>, << "n" >>) >>

\* hashlib.sha256(normalized.encode("utf-8")).hexdigest()[:8] of the three
\* document contents of the model, as the code computes them on the whole
\* documents
Sha256Hex8 ==
  (_deep_copy_without_version(Document(<< "a" >>, << >>, DecisionsV1)) :> << "a", "e", "d", "3", "a", "b", "6", "0" >>)
  @@ (_deep_copy_without_version(Document(<< "a" >>, << >>, DecisionsV2)) :> << "c", "e", "9", "4", "4", "a", "b", "a" >>)
  @@ (_deep_copy_without_version(Document(<< "b" >>, << >>, DecisionsV2)) :> << "4", "f", "4", "c", "7", "1", "6", "3" >>)

\* version.calculate_version
calculate_version(skill_dict) == Sha256Hex8[_deep_copy_without_version(skill_dict)]

\* version.verify_version
verify_version(skill_dict) ==
  LET stored == Get(Get(skill_dict.v, KEY_meta, DictVal(EmptyDict)).v, KEY_version,
                    StrVal(<< >>))
      calculated == calculate_version(skill_dict)
  IN  [is_valid |-> stored.t = "str" /\ stored.v = calculated,
       stored |-> stored, calculated |-> calculated]

\* Skill.from_dict: the typed model of a validated dict, or the
\* ValidationError of Meta.validate_name
from_dict(data) ==
  IF validate_name(data.v[KEY_meta].v[KEY_name].v)
  THEN Return([meta |-> [name |-> data.v[KEY_meta].v[KEY_name].v,
                         version |-> data.v[KEY_meta].v[KEY_version].v],
               data |-> data])
  ELSE Raise("ValidationError", "Name must be lowercase with hyphens, starting with a letter")

\* Skill.to_dict: model_dump(exclude_none=True); the documents of the model
\* have no null field and no section with defaults, so it is the dict the
\* model was validated from
to_dict(skill_model) == skill_model.data

\* load_dict that takes a version mismatch as soft in both modes: a variant
\* of the code that the properties of strict mode must tell from it
load_dict_always_soft(strict, skill_dict) ==
  IF ~ SchemaValid(skill_dict)
  THEN Raise("ValidationFailedError", "Schema validation failed")
  ELSE from_dict(skill_dict)

\* SkillLoader.load_dict with loader.strict_version = strict
load_dict(strict, skill_dict) ==
  IF ~ SchemaValid(skill_dict)
  THEN Raise("ValidationFailedError", "Schema validation failed")
  ELSE IF ~ verify_version(skill_dict).is_valid /\ strict
  THEN Raise("ValueError", "Version mismatch")
  ELSE from_dict(skill_dict)

\* A YAML text is what yaml.safe_load makes of it: it raises YAMLError, or
\* gives the parsed value
YamlError == [yaml |-> "YAMLError", value |-> NoneVal]
Parsed(value) == [yaml |-> "ok", value |-> value]

\* SkillLoader.load_string
load_string(strict, yaml_content) ==
  IF yaml_content.yaml = "YAMLError"
  THEN Raise("ValidationFailedError", "Invalid YAML")
  ELSE IF yaml_content.value.t # "dict"
  THEN Raise("ValidationFailedError", "YAML must parse to a dictionary")
  ELSE load_dict(strict, yaml_content.value)

\* the texts given to load_skill_string, in a sequence: invalid YAML, a scalar, a dict
\* without meta, document a with its fingerprint, another document a with a
\* stored fingerprint that is not its own, document b with its fingerprint
TextA1 == Parsed(Document(<< "a" >>, << "a", "e", "d", "3", "a", "b", "6", "0" >>, DecisionsV1))
TextA2 == Parsed(Document(<< "a" >>, << "0", "0", "0", "0", "0", "0", "0", "0" >>, DecisionsV2))
TextB == Parsed(Document(<< "b" >>, << "4", "f", "4", "c", "7", "1", "6", "3" >>, DecisionsV2))

Texts ==
  << YamlError,
    Parsed(StrVal(<< "x" >>)),
    Parsed(DictVal(<< "n", "o", "t", "_", "m", "e", "t", "a" >> :> DictVal(EmptyDict))),
    TextA1, TextA2, TextB >>

\* ------------------------------------------------------------ SkillRuntime
\* a < b for strs, as sorted compares them
RECURSIVE StrLess(_, _)
StrLess(a, b) ==
  IF b = << >> THEN FALSE
  ELSE IF a = << >> THEN TRUE
  ELSE IF Head(a) = Head(b) THEN StrLess(Tail(a), Tail(b))
  ELSE Ord(Head(a)) < Ord(Head(b))

RECURSIVE SortedItems(_)
\* sorted(filters.items()): by key, the keys being distinct
SortedItems(filters) ==
  IF filters = << >> THEN << >>
  ELSE LET least == CHOOSE i \in 1..Len(filters) :
                      \A j \in 1..Len(filters) : j = i \/ StrLess(filters[i][1], filters[j][1])
       IN  << filters[least] >>
           \o SortedItems(SubSeq(filters, 1, least - 1) \o Drop(filters, least))

\* query: "&".join(f"{k}={v}" for k, v in sorted((filters or {}).items()))
FilterStr(filters) ==
  LET items == SortedItems(filters)
  IN  Join([i \in 1..Len(items) |-> items[i][1] \o << "=" >> \o items[i][2]], << "&" >>)

\* query: f"{skill_name}:{path}?{filter_str}"
cache_key(skill_name, path, filters) ==
  skill_name \o << ":" >> \o path \o << "?" >> \o FilterStr(filters)

\* filters[key] = value on a filters dict
SetItem(filters, key, value) ==
  IF \E i \in 1..Len(filters) : filters[i][1] = key
  THEN [i \in 1..Len(filters) |->
          IF filters[i][1] = key THEN << key, value >> ELSE filters[i]]
  ELSE Append(filters, << key, value >>)

RECURSIVE ParsePairs(_, _)
\* parse_query_string, the loop over filter_str.split("&")
ParsePairs(pairs, filters) ==
  IF pairs = << >> THEN filters
  ELSE LET pair == Head(pairs)
           i == Find(pair, "=", 1)
       IN  ParsePairs(Tail(pairs),
                      IF i # 0
                      THEN SetItem(filters, SubSeq(pair, 1, i - 1), Drop(pair, i))
                      ELSE filters)

\* QueryEngine.parse_query_string
parse_query_string(query) ==
  LET c == Find(query, ":", 1)
      path_and_filters == Drop(query, c)
      q == Find(path_and_filters, "?", 1)
  IN  IF c = 0 THEN Raise("ValueError", "Invalid query format, expected 'skill:path'")
      ELSE Return([skill_name |-> SubSeq(query, 1, c - 1),
                   path |-> IF q # 0 THEN SubSeq(path_and_filters, 1, q - 1)
                            ELSE path_and_filters,
                   filters |-> IF q # 0
                               THEN ParsePairs(Split(Drop(path_and_filters, q), "&"), << >>)
                               ELSE << >>])

\* The operations of SkillRuntime are functions of the runtime rt (its
\* dicts skills, models, state and cache): they give the runtime after the
\* call and what the call returns or raises.
Runtime(skills_, models_, state_, cache_) ==
  [skills |-> skills_, models |-> models_, state |-> state_, cache |-> cache_]

\* del d[k]
Del(d, k) == [x \in DOMAIN d \ {k} |-> d[x]]

\* load_skill_string that registers the document before the version is
\* verified: a variant of the code that the properties of a failing load
\* must tell from it
load_skill_string_registering_first(rt, strict, yaml_content) ==
  LET loaded == load_string(strict, yaml_content)
      lenient == load_string(FALSE, yaml_content)
      skill_model == lenient.value
      name == skill_model.meta.name
  IN  IF lenient.kind # "return" THEN [rt |-> rt, ret |-> loaded]
      ELSE [rt |-> Runtime(Put(rt.skills, name, to_dict(skill_model)),
                           Put(rt.models, name, skill_model),
                           Put(rt.state, name, _initialize_entities(Skill)),
                           rt.cache),
            ret |-> IF loaded.kind # "return" THEN loaded ELSE Return(name)]

\* load_skill_string that keeps the State Tracker of a name that is
\* registered already
load_skill_string_keeping_tracker(rt, strict, yaml_content) ==
  LET loaded == load_string(strict, yaml_content)
      skill_model == loaded.value
      name == skill_model.meta.name
  IN  IF loaded.kind # "return" THEN [rt |-> rt, ret |-> loaded]
      ELSE [rt |-> Runtime(Put(rt.skills, name, to_dict(skill_model)),
                           Put(rt.models, name, skill_model),
                           IF name \in DOMAIN rt.state THEN rt.state
                           ELSE Put(rt.state, name, _initialize_entities(Skill)),
                           rt.cache),
            ret |-> Return(name)]

\* SkillRuntime.load_skill_string, on a loader with strict_version = strict
load_skill_string(rt, strict, yaml_content) ==
  LET loaded == load_string(strict, yaml_content)
      skill_model == loaded.value
      name == skill_model.meta.name
  IN  IF loaded.kind # "return" THEN [rt |-> rt, ret |-> loaded]
      ELSE [rt |-> Runtime(Put(rt.skills, name, to_dict(skill_model)),
                           Put(rt.models, name, skill_model),
                           Put(rt.state, name, _initialize_entities(Skill)),
                           rt.cache),
            ret |-> Return(name)]

\* unload_skill that leaves the cache as it is: a variant of the code that
\* the properties of unload_skill must tell from it
unload_skill_keeping_cache(rt, skill_name) ==
  IF skill_name \notin DOMAIN rt.skills THEN [rt |-> rt, ret |-> Return(FALSE)]
  ELSE [rt |-> Runtime(Del(rt.skills, skill_name), Del(rt.models, skill_name),
                       Del(rt.state, skill_name), rt.cache),
        ret |-> Return(TRUE)]

\* unload_skill that leaves the State Tracker of the skill in place
unload_skill_keeping_state(rt, skill_name) ==
  IF skill_name \notin DOMAIN rt.skills THEN [rt |-> rt, ret |-> Return(FALSE)]
  ELSE [rt |-> Runtime(Del(rt.skills, skill_name), Del(rt.models, skill_name),
                       rt.state,
                       [k \in {x \in DOMAIN rt.cache :
                                 ~ StartsWith(x, skill_name \o << ":" >>)} |-> rt.cache[k]]),
        ret |-> Return(TRUE)]

\* SkillRuntime.unload_skill
unload_skill(rt, skill_name) ==
  IF skill_name \notin DOMAIN rt.skills THEN [rt |-> rt, ret |-> Return(FALSE)]
  ELSE [rt |-> Runtime(Del(rt.skills, skill_name), Del(rt.models, skill_name),
                       Del(rt.state, skill_name),
                       [k \in {x \in DOMAIN rt.cache :
                                 ~ StartsWith(x, skill_name \o << ":" >>)} |-> rt.cache[k]]),
        ret |-> Return(TRUE)]

\* SkillRuntime.get_skill
get_skill(rt, skill_name) ==
  IF skill_name \notin DOMAIN rt.skills
  THEN [rt |-> rt, ret |-> Raise("SkillNotFoundError", skill_name)]
  ELSE [rt |-> rt, ret |-> Return(rt.skills[skill_name])]

\* SkillRuntime.get_skill_model
get_skill_model(rt, skill_name) ==
  IF skill_name \notin DOMAIN rt.models
  THEN [rt |-> rt, ret |-> Raise("SkillNotFoundError", skill_name)]
  ELSE [rt |-> rt, ret |-> Return(rt.models[skill_name])]

\* SkillRuntime.get_state
get_state(rt, skill_name) ==
  IF skill_name \notin DOMAIN rt.state
  THEN [rt |-> rt, ret |-> Raise("SkillNotFoundError", skill_name)]
  ELSE [rt |-> rt, ret |-> Return(rt.state[skill_name])]

\* query that answers a name that is not loaded with a not-found result: a
\* variant of the code that the properties of SkillNotFoundError must tell
\* from it
SkillRuntime_query_not_raising(rt, skill_name, path, filters, use_cache) ==
  LET key == cache_key(skill_name, path, filters)
      result == QueryEngine_query(rt.skills[skill_name], path, filters, skill_name)
  IN  IF skill_name \notin DOMAIN rt.skills
      THEN [rt |-> rt, ret |-> Return(QueryResult(skill_name, path, FALSE, NoneVal, filters))]
      ELSE IF use_cache /\ key \in DOMAIN rt.cache
      THEN [rt |-> rt, ret |-> Return(rt.cache[key])]
      ELSE [rt |-> IF use_cache THEN [rt EXCEPT !.cache = Put(rt.cache, key, result)] ELSE rt,
            ret |-> Return(result)]

\* SkillRuntime.query
SkillRuntime_query(rt, skill_name, path, filters, use_cache) ==
  LET key == cache_key(skill_name, path, filters)
      result == QueryEngine_query(rt.skills[skill_name], path, filters, skill_name)
  IN  IF skill_name \notin DOMAIN rt.skills
      THEN [rt |-> rt, ret |-> Raise("SkillNotFoundError", skill_name)]
      ELSE IF use_cache /\ key \in DOMAIN rt.cache
      THEN [rt |-> rt, ret |-> Return(rt.cache[key])]
      ELSE [rt |-> IF use_cache THEN [rt EXCEPT !.cache = Put(rt.cache, key, result)] ELSE rt,
            ret |-> Return(result)]

\* SkillRuntime.query_string
query_string(rt, query_str) ==
  LET parsed == parse_query_string(query_str)
  IN  IF parsed.kind # "return" THEN [rt |-> rt, ret |-> parsed]
      ELSE SkillRuntime_query(rt, parsed.value.skill_name, parsed.value.path,
                              parsed.value.filters, TRUE)

\* execute on one State Tracker shared by the documents: a variant of the
\* code that the properties of the per-document trackers must tell from it
SkillRuntime_execute_shared_tracker(rt, skill_name, command_path, args, dry_run, timeout, proc) ==
  LET r == execute(rt.state[skill_name], command_path, args, dry_run, timeout, proc)
  IN  IF skill_name \notin DOMAIN rt.skills
      THEN [rt |-> rt, ret |-> Raise("SkillNotFoundError", skill_name)]
      ELSE [rt |-> [rt EXCEPT !.state = [n \in DOMAIN rt.state |-> r.entities]],
            ret |-> r.result]

\* SkillRuntime.execute: the executor is made of the document and of its
\* State Tracker, state[skill_name]
SkillRuntime_execute(rt, skill_name, command_path, args, dry_run, timeout, proc) ==
  LET r == execute(rt.state[skill_name], command_path, args, dry_run, timeout, proc)
  IN  IF skill_name \notin DOMAIN rt.skills
      THEN [rt |-> rt, ret |-> Raise("SkillNotFoundError", skill_name)]
      ELSE [rt |-> [rt EXCEPT !.state = Put(rt.state, skill_name, r.entities)],
            ret |-> r.result]

\* SkillRuntime.clear_cache
clear_cache(rt) == [rt |-> [rt EXCEPT !.cache = EmptyDict], ret |-> Return(None)]

\* SkillRuntime.reset_state; skill_name is a str or None
reset_state(rt, skill_name) ==
  IF skill_name # None /\ skill_name # << >>
  THEN [rt |-> IF skill_name \in DOMAIN rt.state
               THEN [rt EXCEPT !.state = Put(rt.state, skill_name, reset(rt.state[skill_name]))]
               ELSE rt,
        ret |-> Return(None)]
  ELSE [rt |-> [rt EXCEPT !.state = [n \in DOMAIN rt.state |-> reset(rt.state[n])]],
        ret |-> Return(None)]

\* ------------------------------------------------- actions of the runtime
\* names given to the operations of the runtime
RtNames == { << "a" >>, << "b" >> }

\* the path and the filters given to query: one pair whose value holds
\* `&` and `=`, and two pairs
PATH_decisions == KEY_decisions
FiltersOne == << << KEY_then, << "y", "&", "w", "h", "e", "n", "=", "x" >> >> >>
FiltersTwo == << << KEY_when, << "x" >> >>, << KEY_then, << "y" >> >> >>
RtFilters == { FiltersOne, FiltersTwo }

\* the strings given to query_string: the two pairs of FiltersTwo in the
\* other order, on each name, and a string without `:`
STR_nocolon == << "d", "e", "c", "i", "s", "i", "o", "n", "s" >>

QueryStrings ==
  { << "a", ":", "d", "e", "c", "i", "s", "i", "o", "n", "s", "?", "t", "h", "e", "n", "=", "y", "&", "w", "h", "e", "n", "=", "x" >>, << "b", ":", "d", "e", "c", "i", "s", "i", "o", "n", "s", "?", "t", "h", "e", "n", "=", "y", "&", "w", "h", "e", "n", "=", "x" >>, STR_nocolon }

\* the commands given to execute, and what the external process does when
\* it is run
RtCommands == { "init", "fetch", "close" }
RtProcOutcomes ==
  { [kind |-> "exit", returncode |-> 0, stdout |-> << >>, stderr |-> ""],
    [kind |-> "exit", returncode |-> 1, stdout |-> << >>, stderr |-> "failed"] }

\* the runtime as it is
RT == Runtime(skills, models, state, cache)

\* the record of a call: the operation, the name and the other inputs it
\* was given, and what it returned or raised
RtCall(op, name, arg, ret) == [op |-> op, name |-> name, arg |-> arg, ret |-> ret]

\* SkillRuntime(strict_version)
RtInit ==
  /\ skills = EmptyDict /\ models = EmptyDict /\ state = EmptyDict /\ cache = EmptyDict
  /\ strict_version \in BOOLEAN
  /\ rlast = RtCall("new", None, None, Return(None))
  /\ ExecutorIdle
  /\ QueryIdle
  /\ VersionIdle
  /\ BuildIdle

\* the runtime becomes rt; the loader keeps its strict_version.  In the
\* actions r is the outcome of the call.
Becomes(rt) ==
  /\ skills' = rt.skills
  /\ models' = rt.models
  /\ state' = rt.state
  /\ cache' = rt.cache
  /\ UNCHANGED <<strict_version, vars, qvars, vvars, bvars>>

LoadSkillString(yaml_content) ==
  \E r \in { load_skill_string(RT, strict_version, yaml_content) } :
      /\ Becomes(r.rt)
      /\ rlast' = RtCall("load_skill_string", None, yaml_content, r.ret)

UnloadSkill(skill_name) ==
  \E r \in { unload_skill(RT, skill_name) } :
      /\ Becomes(r.rt)
      /\ rlast' = RtCall("unload_skill", skill_name, None, r.ret)

GetSkill(skill_name) ==
  \E r \in { get_skill(RT, skill_name) } :
      /\ Becomes(r.rt)
      /\ rlast' = RtCall("get_skill", skill_name, None, r.ret)

GetSkillModel(skill_name) ==
  \E r \in { get_skill_model(RT, skill_name) } :
      /\ Becomes(r.rt)
      /\ rlast' = RtCall("get_skill_model", skill_name, None, r.ret)

GetState(skill_name) ==
  \E r \in { get_state(RT, skill_name) } :
      /\ Becomes(r.rt)
      /\ rlast' = RtCall("get_state", skill_name, None, r.ret)

Query(skill_name, path, filters, use_cache) ==
  \E r \in { SkillRuntime_query(RT, skill_name, path, filters, use_cache) } :
      /\ Becomes(r.rt)
      /\ rlast' = RtCall("query", skill_name,
                         [path |-> path, filters |-> filters, use_cache |-> use_cache],
                         r.ret)

\* query_string(query_str); the record keeps what the string parses to
QueryString(query_str) ==
  \E r \in { query_string(RT, query_str) }, parsed \in { parse_query_string(query_str) } :
      /\ Becomes(r.rt)
      /\ rlast' = IF parsed.kind = "return"
                  THEN RtCall("query_string", parsed.value.skill_name,
                              [path |-> parsed.value.path,
                               filters |-> parsed.value.filters, use_cache |-> TRUE],
                              r.ret)
                  ELSE RtCall("query_string", None, None, r.ret)

\* execute(skill_name, command_path): no args, no dry run, no timeout
RtExecute(skill_name, command_path) ==
  \E proc \in IF skill_name \in DOMAIN skills /\ Runs(state[skill_name], command_path, FALSE)
              THEN RtProcOutcomes ELSE {NoProc} :
    \E r \in { SkillRuntime_execute(RT, skill_name, command_path, EmptyDict, FALSE, "None", proc) } :
        /\ Becomes(r.rt)
        /\ rlast' = RtCall("execute", skill_name,
                           [command_path |-> command_path, proc |-> proc], r.ret)

ClearCache ==
  \E r \in { clear_cache(RT) } :
      /\ Becomes(r.rt)
      /\ rlast' = RtCall("clear_cache", None, None, r.ret)

ResetState(skill_name) ==
  \E r \in { reset_state(RT, skill_name) } :
      /\ Becomes(r.rt)
      /\ rlast' = RtCall("reset_state", skill_name, None, r.ret)

\* a step of the runtime: any operation, on any name and text, with a
\* command of commands, a use_cache of uses and a query string of strings
RtNext(commands, uses, strings) ==
  \/ \E i \in 1..Len(Texts) : LoadSkillString(Texts[i])
  \/ \E n \in RtNames : UnloadSkill(n)
  \/ \E n \in RtNames : GetSkill(n)
  \/ \E n \in RtNames : GetSkillModel(n)
  \/ \E n \in RtNames : GetState(n)
  \/ \E n \in RtNames, f \in RtFilters, u \in uses : Query(n, PATH_decisions, f, u)
  \/ \E q \in strings : QueryString(q)
  \/ \E n \in RtNames, c \in commands : RtExecute(n, c)
  \/ ClearCache
  \/ \E n \in RtNames \cup {None} : ResetState(n)

\* The runtime with every query and the cache at work; the commands it
\* executes leave a fresh State Tracker as it is.
SpecRuntime ==
  RtInit /\ [][RtNext({"close", "nonexistent"}, BOOLEAN, QueryStrings)]_<<vars, rtvars, qvars, vvars, bvars>>

\* The runtime with the State Trackers at work; its queries bypass the
\* cache.
SpecTrackers ==
  RtInit /\ [][RtNext(RtCommands, {FALSE}, {STR_nocolon})]_<<vars, rtvars, qvars, vvars, bvars>>

\* ------------------------------------------------ properties of the runtime
\* the last call was op on name and returned a value
Returned(op) == rlast.op = op /\ rlast.ret.kind = "return"

\* the last call was a query or a query_string that went through the cache
\* and returned a result
CachedQueryReturned ==
  /\ rlast.op \in {"query", "query_string"}
  /\ rlast.ret.kind = "return"
  /\ rlast.arg.use_cache

\* the (key, pattern) pairs of a filters dict, as a set
Pairs(filters) == { filters[i] : i \in 1..Len(filters) }

\* the result is one of the query (skill_name, path, filters)
OfTriple(result, skill_name, path, filters) ==
  /\ result.skill = skill_name
  /\ result.path = path
  /\ Pairs(result.filters) = Pairs(filters)

\* what the engine finds now, without the cache, for the last query
Uncached ==
  QueryEngine_query(skills[rlast.name], rlast.arg.path, rlast.arg.filters, rlast.name)

\* C11: the cache is a pure memoization.  A query through the cache returns
\* the found flag and the value that the query without the cache gives at
\* that moment on the document registered under the name.  It is stated for
\* the returns that are a result of the requested (name, path, filters):
\* after load a, query, load another a, query, it fails with the result of
\* the replaced document.
C11_CacheIsMemoization ==
  (CachedQueryReturned
     /\ OfTriple(rlast.ret.value, rlast.name, rlast.arg.path, rlast.arg.filters))
  => /\ rlast.ret.value.found = Uncached.found
     /\ rlast.ret.value.value = Uncached.value

\* C12: a cache entry belongs to one (name, path, set of filter pairs): a
\* query through the cache never returns the result of another triple.
C12_EntryOfOneTriple ==
  CachedQueryReturned
  => OfTriple(rlast.ret.value, rlast.name, rlast.arg.path, rlast.arg.filters)


\* the entries of the cache that are results of document skill_name
EntriesOf(c, skill_name) == { k \in DOMAIN c : c[k].skill = skill_name }

\* C13: unload_skill(name) on a loaded name returns true and removes the
\* document, its typed model, its State Tracker and every cache entry of
\* that document, and leaves those of every other document as they were; on
\* a name that is not loaded it returns false and changes nothing;
\* clear_cache empties the cache and changes nothing else.
C13_UnloadAndClearFrame ==
  [][ /\ (rlast'.op = "unload_skill" /\ rlast'.name \in DOMAIN skills)
         => /\ rlast'.ret = Return(TRUE)
            /\ skills' = Del(skills, rlast'.name)
            /\ models' = Del(models, rlast'.name)
            /\ state' = Del(state, rlast'.name)
            /\ DOMAIN cache' = DOMAIN cache \ EntriesOf(cache, rlast'.name)
            /\ \A k \in DOMAIN cache' : cache'[k] = cache[k]
      /\ (rlast'.op = "unload_skill" /\ rlast'.name \notin DOMAIN skills)
         => /\ rlast'.ret = Return(FALSE)
            /\ UNCHANGED <<skills, models, state, cache>>
      /\ rlast'.op = "clear_cache"
         => /\ cache' = EmptyDict
            /\ UNCHANGED <<skills, models, state>>
    ]_<<vars, rtvars, qvars, vvars, bvars>>

\* an unload_skill has returned true and left both a document and cache
\* entries of it
C13_Witness ==
  /\ Returned("unload_skill")
  /\ rlast.ret.value = TRUE
  /\ \E n \in DOMAIN skills : EntriesOf(cache, n) # {}


\* the last call was op and raised
Raised(op) == rlast.op = op /\ rlast.ret.kind # "return"

\* C14: a load that fails (the text does not parse, it is not a mapping, the
\* schema rejects it, or its version mismatches in strict mode) registers
\* nothing: documents, typed models, State Trackers and cache are what they
\* were before the call.
C14_FailedLoadRegistersNothing ==
  [][ (rlast'.op = "load_skill_string" /\ rlast'.ret.kind # "return")
      => UNCHANGED <<skills, models, state, cache>>
    ]_<<vars, rtvars, qvars, vvars, bvars>>

\* a load of a document named a has failed on its version while a document
\* a was loaded and had a result in the cache
C14_Witness ==
  /\ Raised("load_skill_string")
  /\ rlast.ret.kind = "ValueError"
  /\ rlast.arg = TextA2
  /\ << "a" >> \in DOMAIN skills
  /\ EntriesOf(cache, << "a" >>) # {}


\* the last call was a load of a text that parses to a schema-valid document
LoadedSchemaValid ==
  /\ rlast.op = "load_skill_string"
  /\ rlast.arg.yaml = "ok"
  /\ rlast.arg.value.t = "dict"
  /\ SchemaValid(rlast.arg.value)

\* the last load has registered its document under its name
RegisteredByLast ==
  /\ rlast.ret = Return(rlast.arg.value.v[KEY_meta].v[KEY_name].v)
  /\ rlast.ret.value \in DOMAIN skills
  /\ skills[rlast.ret.value] = rlast.arg.value
  /\ rlast.ret.value \in DOMAIN models
  /\ rlast.ret.value \in DOMAIN state

\* C15: a schema-valid document whose stored fingerprint is not the
\* recomputed one is loaded and registered when strict mode is off, and is
\* rejected with a failure when strict mode is on; a document whose stored
\* fingerprint is the recomputed one is loaded in both modes.
C15_StrictModeOnMismatch ==
  LoadedSchemaValid
  => IF verify_version(rlast.arg.value).is_valid \/ ~ strict_version
     THEN RegisteredByLast
     ELSE rlast.ret.kind = "ValueError"

\* a document with a fingerprint that is not its own has been loaded, strict
\* mode being off
C15_Witness ==
  /\ LoadedSchemaValid
  /\ ~ verify_version(rlast.arg.value).is_valid
  /\ ~ strict_version
  /\ RegisteredByLast


\* the operations that take the name of a loaded document
OnLoadedOnly ==
  { "get_skill", "get_skill_model", "get_state", "query", "query_string", "execute" }

\* C16: get_skill, get_skill_model, get_state, query, query_string and
\* execute on a name that is not loaded raise SkillNotFoundError and leave
\* the documents, the typed models, the State Trackers and the cache as
\* they were.  A query string without `:` names no document and is not in
\* the case.
C16_SkillNotFoundOnUnloaded ==
  [][ (rlast'.op \in OnLoadedOnly /\ rlast'.name # None /\ rlast'.name \notin DOMAIN skills)
      => /\ rlast'.ret.kind = "SkillNotFoundError"
         /\ rlast'.ret.value = rlast'.name
         /\ UNCHANGED <<skills, models, state, cache>>
    ]_<<vars, rtvars, qvars, vvars, bvars>>

\* a query_string through the cache on a name that is not loaded has raised
\* SkillNotFoundError, the cache holding results of another document
C16_Witness ==
  /\ Raised("query_string")
  /\ rlast.ret.kind = "SkillNotFoundError"
  /\ rlast.name \notin DOMAIN skills
  /\ cache # EmptyDict


\* the step is an execute of a command of Skill on a loaded document
ExecutesOnLoaded ==
  /\ rlast'.op = "execute"
  /\ rlast'.name \in DOMAIN skills
  /\ Known(Skill, rlast'.arg.command_path)

\* C17: each loaded document has one State Tracker, used by every execute
\* on that document and by no other document.  An execute on document A
\* raises InvalidStateError exactly when a requirement of the command is not
\* valid in the tracker of A, a successful one leaves the entities it
\* creates and does not invalidate valid in the tracker of A, and no
\* execute, reset_state(A) or unload of A changes the tracker of another
\* document.
C17_TrackerPerDocument ==
  [][ /\ ExecutesOnLoaded
         => /\ rlast'.ret.kind = "InvalidStateError"
               <=> check_requires(Skill, state[rlast'.name], rlast'.arg.command_path) # << >>
            /\ rlast'.name \in DOMAIN state'
            /\ (rlast'.ret.kind = "return" /\ rlast'.ret.success)
               => \A e \in EntityNames :
                    (/\ InSeq(e, Get(Skill.commands[rlast'.arg.command_path], "creates", << >>))
                     /\ ~ InSeq(e, Get(Skill.commands[rlast'.arg.command_path], "invalidates", << >>)))
                    => is_valid(state'[rlast'.name], e)
      /\ (rlast'.op \in {"execute", "reset_state", "unload_skill"} /\ rlast'.name # None)
         => \A m \in DOMAIN state \ {rlast'.name} :
              m \in DOMAIN state' /\ state'[m] = state[m]
    ]_<<vars, rtvars, qvars, vvars, bvars>>

\* fetch has succeeded on document a, whose session an earlier init on a
\* made valid, while the session of document b is not valid
C17_Witness ==
  /\ Returned("execute")
  /\ rlast.name = << "a" >>
  /\ rlast.arg.command_path = "fetch"
  /\ rlast.ret.success
  /\ is_valid(state[<< "a" >>], "token")
  /\ << "b" >> \in DOMAIN state
  /\ ~ is_valid(state[<< "b" >>], "session")

\* ------------------------------------------------- actions of QueryEngine
\* what a call of the engine left: the operation and its result
QOut(op, result) == [op |-> op, result |-> result]

\* a str field of a dict
Field(key, s) == key :> StrVal(s)

KEY_l == << "l" >>
KEY_k == << "k" >>

\* The documents given to query.  QDocA has a list l whose elements share
\* the name/id x, have the name 1, are not all dicts, and hold under k a
\* str, a str with brackets, an int, None or nothing; and a dict m.
\* QDocB has no meta, and a list l with an int as name and a bool under k.
QDocA ==
  DictVal(
    (KEY_meta :> DictVal(Field(KEY_name, << "a" >>)))
    @@ (KEY_l :> ListVal(<<
          DictVal(Field(KEY_name, << "x" >>) @@ Field(KEY_k, << "A", "b" >>)),
          DictVal(Field(KEY_id, << "x" >>) @@ Field(KEY_name, << "y" >>) @@ Field(KEY_k, << "[", "a", "]" >>)),
          DictVal(Field(KEY_name, << "1" >>) @@ (KEY_k :> IntVal(5))),
          StrVal(<< "s" >>),
          DictVal(Field(KEY_name, << "X" >>) @@ (KEY_k :> NoneVal)),
          DictVal(Field(KEY_name, << "n" >>)),
          DictVal(Field(KEY_name, << "a" >>) @@ Field(KEY_k, << "a" >>)) >>))
    @@ (<< "m" >> :> DictVal(Field(KEY_k, << "v" >>))))

QDocB ==
  DictVal(
    KEY_l :> ListVal(<<
      DictVal(KEY_name :> IntVal(7)),
      DictVal(Field(KEY_id, << "x" >>) @@ (KEY_k :> BoolVal(TRUE))) >>))

QDocs == << QDocA, QDocB >>

\* the paths: the list, its elements by name, by id, by index, by what
\* int() takes and refuses, below an element, the dict, below a str, the
\* empty path and a key that is missing
QPaths ==
  << << "l" >>, << "l", ".", "x" >>, << "l", ".", "y" >>, << "l", ".", "X" >>, << "l", ".", "1" >>, << "l", ".", "0" >>, << "l", ".", "3" >>, << "l", ".", "7" >>,
     << "l", ".", "-", "1" >>, << "l", ".", "+", "1" >>, << "l", ".", " ", "2" >>, << "l", ".", "z" >>, << "l", ".", "x", ".", "0" >>, << "l", ".", "x", ".", "y" >>, << "l", ".", "y", ".", "i", "d" >>,
     << "m" >>, << "m", ".", "k" >>, << "m", ".", "k", ".", "z" >>, << >>, << "q" >> >>

\* the filters: none, patterns with `*`, `?`, brackets and `!`, the empty
\* pattern, the texts of None, of an int and of a bool, two filters, and a
\* key that no element has
QFilters ==
  << << >>,
     << << KEY_k, << "a", "*" >> >> >>,
     << << KEY_k, << "[", "a", "]" >> >> >>,
     << << KEY_k, << "?" >> >> >>,
     << << KEY_k, << >> >> >>,
     << << KEY_k, << "*" >> >> >>,
     << << KEY_k, << "n", "o", "n", "e" >> >> >>,
     << << KEY_k, << "5" >> >> >>,
     << << KEY_k, << "T", "R", "U", "E" >> >> >>,
     << << KEY_name, << "?" >> >>, << KEY_k, << "*", "B" >> >> >>,
     << << KEY_name, << "[", "!", "a", "]" >> >> >>,
     << << << "z" >>, << >> >> >> >>

\* the skill_name given: none, or one
QNames == << << >>, << "s" >> >>

\* the engine is given a document, a path, filters and a name
QInit ==
  /\ ExecutorIdle
  /\ RuntimeIdle
  /\ VersionIdle
  /\ BuildIdle
  /\ \E d \in 1..Len(QDocs), p \in 1..Len(QPaths), f \in 1..Len(QFilters), n \in 1..Len(QNames) :
       qin = [skill |-> QDocs[d], path |-> QPaths[p], filters |-> QFilters[f],
              skill_name |-> QNames[n]]
  /\ qout = QOut("none", NoneVal)

\* QueryEngine.query(skill, path, filters, skill_name)
EngineQuery ==
  /\ qout.op = "none"
  /\ qout' = QOut("query", QueryEngine_query(qin.skill, qin.path, qin.filters, qin.skill_name))
  /\ UNCHANGED <<qin, vars, rtvars, vvars, bvars>>

\* QueryEngine.query_or_raise: the value, or PathNotFoundError(path,
\* skill_name or "unknown")
query_or_raise(skill_dict, path, filters, skill_name) ==
  LET result == QueryEngine_query(skill_dict, path, filters, skill_name)
  IN  IF ~ result.found
      THEN Raise("PathNotFoundError",
                 [path |-> path,
                  skill |-> IF skill_name # None /\ skill_name # << >>
                            THEN skill_name ELSE STR_unknown])
      ELSE Return(result.value)

RECURSIVE SortedKeys(_)
\* the keys of a dict in a sequence.  The dicts of the model do not keep
\* the insertion order that the code iterates in: the keys come sorted.
SortedKeys(keys) ==
  IF keys = {} THEN << >>
  ELSE LET least == CHOOSE k \in keys : \A j \in keys : j = k \/ StrLess(k, j)
       IN  << least >> \o SortedKeys(keys \ {least})

RECURSIVE list_paths(_, _)
RECURSIVE ListPathsOf(_, _, _)
\* list_paths, the loop over skill_dict.items(), from the keys that are left
ListPathsOf(skill_dict, keys, prefix) ==
  IF keys = << >> THEN << >>
  ELSE LET key == Head(keys)
           value == skill_dict.v[key]
           current_path == IF prefix # << >> THEN prefix \o << "." >> \o key ELSE key
       IN  << current_path >>
           \o (IF value.t = "dict" THEN list_paths(value, current_path)
               ELSE IF value.t = "list" /\ value.v # << >> /\ value.v[1].t = "dict"
               THEN list_paths(value.v[1], current_path \o << "[", "0", "]" >>)
               ELSE << >>)
           \o ListPathsOf(skill_dict, Tail(keys), prefix)

\* QueryEngine.list_paths(skill_dict, prefix)
list_paths(skill_dict, prefix) ==
  IF skill_dict.t = "dict"
  THEN ListPathsOf(skill_dict, SortedKeys(DOMAIN skill_dict.v), prefix)
  ELSE << >>

\* QueryEngine.query_or_raise(skill, path, filters, skill_name)
EngineQueryOrRaise ==
  /\ qout.op = "none"
  /\ qout' = QOut("query_or_raise",
                  query_or_raise(qin.skill, qin.path, qin.filters, qin.skill_name))
  /\ UNCHANGED <<qin, vars, rtvars, vvars, bvars>>

\* QueryEngine.list_paths(skill)
EngineListPaths ==
  /\ qout.op = "none"
  /\ qout' = QOut("list_paths", list_paths(qin.skill, << >>))
  /\ UNCHANGED <<qin, vars, rtvars, vvars, bvars>>

QNext ==
  \/ EngineQuery
  \/ EngineQueryOrRaise
  \/ EngineListPaths

SpecQuery == QInit /\ [][QNext]_<<vars, rtvars, qvars, vvars, bvars>>

\* --------------------------------------------- properties of QueryEngine
RECURSIVE Same(_, _)
\* two document values are the same value
Same(x, y) ==
  /\ x.t = y.t
  /\ IF x.t = "list"
     THEN Len(x.v) = Len(y.v) /\ \A i \in 1..Len(x.v) : Same(x.v[i], y.v[i])
     ELSE IF x.t = "dict"
     THEN DOMAIN x.v = DOMAIN y.v /\ \A k \in DOMAIN x.v : Same(x.v[k], y.v[k])
     ELSE x.v = y.v

RECURSIVE PickFrom(_, _, _)
\* the elements of lst at the indices of S, from index i on, in the order
\* of lst
PickFrom(lst, S, i) ==
  IF i > Len(lst) THEN << >>
  ELSE (IF i \in S THEN << lst[i] >> ELSE << >>) \o PickFrom(lst, S, i + 1)

\* the element is a mapping whose name or id is the str s
HasNameOrId(x, s) ==
  /\ x.t = "dict"
  /\ \E key \in {KEY_name, KEY_id} :
       key \in DOMAIN x.v /\ x.v[key].t = "str" /\ x.v[key].v = s

\* the query was of the path l.s without filters: the list l is reached
\* with the segment s
ReachedListWith ==
  /\ qout.op = "query"
  /\ qin.filters = << >>
  /\ Len(Split(qin.path, ".")) = 2
  /\ Split(qin.path, ".")[1] = KEY_l

\* C18: when query reaches a sequence with a segment s, it descends into
\* the one mapping element whose name or id is s; into the list of all such
\* elements, in their order, when there are several; and when there is none
\* into the element at the index s parses to, the result being not-found
\* when s does not parse or the index is out of range.
C18_ListSegmentLookup ==
  ReachedListWith
  => LET lst == qin.skill.v[KEY_l].v
         s == Split(qin.path, ".")[2]
         hits == { i \in 1..Len(lst) : HasNameOrId(lst[i], s) }
         idx == int(s)
         r == qout.result
     IN  IF Cardinality(hits) = 1
         THEN r.found /\ Same(r.value, lst[CHOOSE i \in hits : TRUE])
         ELSE IF Cardinality(hits) > 1
         THEN r.found /\ Same(r.value, ListVal(PickFrom(lst, hits, 1)))
         ELSE IF idx.ok /\ 0 <= idx.n /\ idx.n < Len(lst)
         THEN r.found /\ Same(r.value, lst[idx.n + 1])
         ELSE ~ r.found

\* the segment 1 is the name of the third element and the index of the
\* second: the query has given the third
C18_Witness ==
  /\ ReachedListWith
  /\ Split(qin.path, ".")[2] = << "1" >>
  /\ qout.result.found
  /\ KEY_name \in DOMAIN qout.result.value.v
  /\ qout.result.value.v[KEY_name].v = << "1" >>


\* what the path of the query resolves to, without filters
Resolved == QueryEngine_query(qin.skill, qin.path, << >>, qin.skill_name)

\* the text of the value of the mapping element e for key: empty if the key
\* is absent, none_text if the value is None
TextFor(e, key, none_text) ==
  IF key \notin DOMAIN e.v THEN << >>
  ELSE IF e.v[key].t = "none" THEN none_text
  ELSE StrOf(e.v[key])

\* the element is a mapping and satisfies every filter
Satisfies(e, filters, none_text) ==
  /\ e.t = "dict"
  /\ \A i \in 1..Len(filters) :
       fnmatchcase(Lower(TextFor(e, filters[i][1], none_text)), Lower(filters[i][2]))

\* the result of a query whose path resolves is found; on a sequence with
\* filters its value is the sublist of the elements that satisfy them, and
\* on a non-sequence it is the resolved value
FilteredWith(none_text) ==
  (qout.op = "query" /\ Resolved.found)
  => /\ qout.result.found
     /\ (Resolved.value.t = "list" /\ qin.filters # << >>)
        => Same(qout.result.value,
                ListVal(PickFrom(Resolved.value.v,
                                 { i \in 1..Len(Resolved.value.v) :
                                     Satisfies(Resolved.value.v[i], qin.filters, none_text) },
                                 1)))
     /\ Resolved.value.t # "list" => Same(qout.result.value, Resolved.value)

\* str(None)
STR_None == << "N", "o", "n", "e" >>

\* C19 as stated: on a sequence with filters the value is the sublist, in
\* the original order, of the mapping elements whose stringified value for
\* each key (empty if the key is absent) matches the pattern without regard
\* to case; on a non-sequence the filters are ignored.  The stringified
\* None is the text None.
C19_FilteredSublist == FilteredWith(STR_None)

\* C19 amended: as stated, a value None counting as the empty string like
\* an absent key.
C19_FilteredSublistNoneAsEmpty == FilteredWith(<< >>)

\* the empty pattern on k has kept, of the list of QDocA, the element whose
\* k is None and the element without k
C19_Witness ==
  /\ qout.op = "query"
  /\ qin.path = KEY_l
  /\ qin.filters = << << KEY_k, << >> >> >>
  /\ qout.result.found
  /\ Len(qout.result.value.v) = 2
  /\ qout.result.value.v[1].v[KEY_k].t = "none"
  /\ KEY_k \notin DOMAIN qout.result.value.v[2].v


RECURSIVE SimpleGlob(_, _)
\* name matches a pattern in which `*` is any substring, `?` is one
\* character and every other character is itself
SimpleGlob(name, pat) ==
  IF pat = << >> THEN name = << >>
  ELSE IF Head(pat) = "*"
  THEN SimpleGlob(name, Tail(pat)) \/ (name # << >> /\ SimpleGlob(Tail(name), pat))
  ELSE IF Head(pat) = "?"
  THEN name # << >> /\ SimpleGlob(Tail(name), Tail(pat))
  ELSE name # << >> /\ Head(name) = Head(pat) /\ SimpleGlob(Tail(name), Tail(pat))

\* the element is a mapping and satisfies every filter, `*` and `?` being
\* the only wildcards
SatisfiesSimply(e, filters) ==
  /\ e.t = "dict"
  /\ \A i \in 1..Len(filters) :
       SimpleGlob(Lower(TextFor(e, filters[i][1], << >>)), Lower(filters[i][2]))

\* C20: in a filter pattern only `*` and `?` are wildcards; every other
\* character, `[`, `]` and `!` included, matches only itself, without
\* regard to case: the filtered value is the sublist of the elements that
\* match in this way.  It fails on the pattern [a], which keeps the element
\* whose k is a and drops the one whose k is [a].
C20_OnlyStarAndQuestion ==
  (qout.op = "query" /\ Resolved.found /\ Resolved.value.t = "list" /\ qin.filters # << >>)
  => Same(qout.result.value,
          ListVal(PickFrom(Resolved.value.v,
                           { i \in 1..Len(Resolved.value.v) :
                               SatisfiesSimply(Resolved.value.v[i], qin.filters) },
                           1)))


\* what query gives on the inputs of the call
Queried == QueryEngine_query(qin.skill, qin.path, qin.filters, qin.skill_name)

\* C21: query_or_raise raises PathNotFoundError exactly when query on the
\* same inputs is not found, and otherwise returns the value of query; the
\* error carries the path and the document name that query reports (the
\* name given, or meta.name when none is given).  It fails on a path that
\* is not found in QDocA without a name: query reports a, the error carries
\* unknown.
C21_RaisesWhenNotFound ==
  qout.op = "query_or_raise"
  => /\ (qout.result.kind = "PathNotFoundError") <=> ~ Queried.found
     /\ Queried.found
        => qout.result.kind = "return" /\ Same(qout.result.value, Queried.value)
     /\ ~ Queried.found
        => /\ qout.result.value.path = qin.path
           /\ qout.result.value.skill = Queried.skill

\* C22: every path that list_paths returns is a path that query finds in
\* the document.  It fails on the paths below the first element of a list,
\* which list_paths writes l[0].name.
C22_ListedPathsAreFound ==
  qout.op = "list_paths"
  => \A i \in 1..Len(qout.result) :
       QueryEngine_query(qin.skill, qout.result[i], << >>, qin.skill_name).found

\* ------------------------------------------------ documents with identity
\* For the functions of version.py a dict keeps its insertion order (it is
\* the sequence of its (key, value) items, the keys distinct), and a dict or
\* a list carries the identity of its object (its id()): two containers
\* with the same identity are one object, and a change made to it shows
\* wherever it occurs.  meta, where a document has it, is a dict.
ODict(id, items) == [t |-> "dict", id |-> id, v |-> items]
OList(id, elems) == [t |-> "list", id |-> id, v |-> elems]

\* key in d, d[key]
OHas(items, key) == \E i \in 1..Len(items) : items[i][1] = key
OGet(items, key) == items[CHOOSE i \in 1..Len(items) : items[i][1] = key][2]

\* the objects of a document given to the functions are numbered from 1 to
\* MaxObjects at most; the object that copies object id is a new one
MaxObjects == 8
Fresh(id) == id + MaxObjects

\* a copy of the outer dict only, which shares every inner object
_shallow_copy_value(value) ==
  IF value.t = "dict" THEN ODict(Fresh(value.id), value.v) ELSE value

RECURSIVE _deep_copy_value(_)
\* version._deep_copy_value
_deep_copy_value(value) ==
  IF value.t = "dict"
  THEN ODict(Fresh(value.id),
             [i \in 1..Len(value.v) |-> << value.v[i][1], _deep_copy_value(value.v[i][2]) >>])
  ELSE IF value.t = "list"
  THEN OList(Fresh(value.id), [i \in 1..Len(value.v) |-> _deep_copy_value(value.v[i])])
  ELSE value

\* a copy of meta that keeps the stored version
MetaKeepingVersion(value) ==
  ODict(Fresh(value.id), value.v)

\* {k: v for k, v in value.items() if k != "version"}: a new dict that
\* holds the values of meta themselves
MetaWithoutVersion(value) ==
  ODict(Fresh(value.id), SelectSeq(value.v, LAMBDA item : item[1] # KEY_version))

\* version._deep_copy_without_version, on a document with identity
version_deep_copy_without_version(skill_dict) ==
  ODict(Fresh(skill_dict.id),
        [i \in 1..Len(skill_dict.v) |->
           IF skill_dict.v[i][1] = KEY_meta
           THEN << KEY_meta, MetaWithoutVersion(skill_dict.v[i][2]) >>
           ELSE << skill_dict.v[i][1], _deep_copy_value(skill_dict.v[i][2]) >>])

RECURSIVE JsonEscape(_)
\* the text of a str between the quotes of json.dumps
JsonEscape(s) ==
  IF s = << >> THEN << >>
  ELSE (IF Head(s) \in {"\"", "\\"} THEN << "\\", Head(s) >> ELSE << Head(s) >>)
       \o JsonEscape(Tail(s))

JsonStr(s) == << "\"" >> \o JsonEscape(s) \o << "\"" >>

RECURSIVE json_dumps(_, _)
\* json.dumps(value, sort_keys=sort_keys, separators=(",", ":"))
json_dumps(value, sort_keys) ==
  IF value.t = "dict"
  THEN LET items == IF sort_keys THEN SortedItems(value.v) ELSE value.v
       IN  << "{" >>
           \o Join([i \in 1..Len(items) |->
                      JsonStr(items[i][1]) \o << ":" >> \o json_dumps(items[i][2], sort_keys)],
                   << "," >>)
           \o << "}" >>
  ELSE IF value.t = "list"
  THEN << "[" >>
       \o Join([i \in 1..Len(value.v) |-> json_dumps(value.v[i], sort_keys)], << "," >>)
       \o << "]" >>
  ELSE IF value.t = "str" THEN JsonStr(value.v)
  ELSE IF value.t = "none" THEN << "n", "u", "l", "l" >>
  ELSE Lower(StrOf(value))


\* hashlib.sha256(normalized.encode("utf-8")).hexdigest()[:8], for the
\* normalized texts of the documents of the model
Sha256Table ==
  << << << "{", "\"", "l", "\"", ":", "[", "{", "\"", "k", "\"", ":", "[", "1", "]", "}", ",", "[", "2", "]", "]", ",", "\"", "m", "e", "t", "a", "\"", ":", "{", "\"", "n", "a", "m", "e", "\"", ":", "\"", "a", "\"", ",", "\"", "v", "e", "r", "s", "i", "o", "n", "\"", ":", "\"", "0", "0", "0", "0", "0", "0", "0", "0", "\"", "}", "}" >>,
        << "9", "9", "4", "b", "8", "7", "0", "6" >> >>,
     << << "{", "\"", "l", "\"", ":", "[", "{", "\"", "k", "\"", ":", "[", "1", "]", "}", ",", "[", "2", "]", "]", ",", "\"", "m", "e", "t", "a", "\"", ":", "{", "\"", "n", "a", "m", "e", "\"", ":", "\"", "a", "\"", ",", "\"", "v", "e", "r", "s", "i", "o", "n", "\"", ":", "\"", "f", "f", "f", "f", "f", "f", "f", "f", "\"", "}", "}" >>,
        << "4", "4", "d", "9", "9", "2", "d", "2" >> >>,
     << << "{", "\"", "l", "\"", ":", "[", "{", "\"", "k", "\"", ":", "[", "1", "]", "}", ",", "[", "2", "]", "]", ",", "\"", "m", "e", "t", "a", "\"", ":", "{", "\"", "n", "a", "m", "e", "\"", ":", "\"", "a", "\"", "}", "}" >>,
        << "f", "7", "d", "9", "4", "c", "b", "1" >> >>,
     << << "{", "\"", "l", "\"", ":", "[", "{", "\"", "k", "\"", ":", "[", "1", "]", "}", ",", "[", "2", "]", "]", ",", "\"", "m", "e", "t", "a", "\"", ":", "{", "\"", "v", "e", "r", "s", "i", "o", "n", "\"", ":", "\"", "0", "0", "0", "0", "0", "0", "0", "0", "\"", ",", "\"", "n", "a", "m", "e", "\"", ":", "\"", "a", "\"", "}", "}" >>,
        << "7", "8", "6", "4", "0", "e", "a", "5" >> >>,
     << << "{", "\"", "m", "e", "t", "a", "\"", ":", "{", "\"", "n", "a", "m", "e", "\"", ":", "\"", "a", "\"", ",", "\"", "t", "y", "p", "e", "\"", ":", "\"", "c", "l", "i", "\"", ",", "\"", "v", "e", "r", "s", "i", "o", "n", "\"", ":", "\"", "0", "0", "0", "0", "0", "0", "0", "0", "\"", "}", ",", "\"", "x", "\"", ":", "[", "1", ",", "{", "\"", "j", "\"", ":", "2", ",", "\"", "k", "\"", ":", "\"", "v", "\"", "}", "]", "}" >>,
        << "8", "c", "0", "c", "9", "e", "5", "4" >> >>,
     << << "{", "\"", "m", "e", "t", "a", "\"", ":", "{", "\"", "n", "a", "m", "e", "\"", ":", "\"", "a", "\"", ",", "\"", "t", "y", "p", "e", "\"", ":", "\"", "c", "l", "i", "\"", ",", "\"", "v", "e", "r", "s", "i", "o", "n", "\"", ":", "\"", "0", "0", "0", "0", "0", "0", "0", "0", "\"", "}", ",", "\"", "x", "\"", ":", "[", "1", ",", "{", "\"", "k", "\"", ":", "\"", "v", "\"", ",", "\"", "j", "\"", ":", "2", "}", "]", "}" >>,
        << "e", "1", "6", "5", "5", "8", "9", "b" >> >>,
     << << "{", "\"", "m", "e", "t", "a", "\"", ":", "{", "\"", "n", "a", "m", "e", "\"", ":", "\"", "a", "\"", ",", "\"", "t", "y", "p", "e", "\"", ":", "\"", "c", "l", "i", "\"", ",", "\"", "v", "e", "r", "s", "i", "o", "n", "\"", ":", "\"", "c", "8", "4", "c", "2", "2", "1", "0", "\"", "}", ",", "\"", "x", "\"", ":", "[", "1", ",", "{", "\"", "j", "\"", ":", "2", ",", "\"", "k", "\"", ":", "\"", "v", "\"", "}", "]", "}" >>,
        << "2", "3", "e", "c", "3", "c", "c", "5" >> >>,
     << << "{", "\"", "m", "e", "t", "a", "\"", ":", "{", "\"", "n", "a", "m", "e", "\"", ":", "\"", "a", "\"", ",", "\"", "t", "y", "p", "e", "\"", ":", "\"", "c", "l", "i", "\"", ",", "\"", "v", "e", "r", "s", "i", "o", "n", "\"", ":", "\"", "f", "f", "f", "f", "f", "f", "f", "f", "\"", "}", ",", "\"", "x", "\"", ":", "[", "1", ",", "{", "\"", "j", "\"", ":", "2", ",", "\"", "k", "\"", ":", "\"", "v", "\"", "}", "]", "}" >>,
        << "0", "9", "6", "1", "6", "2", "8", "c" >> >>,
     << << "{", "\"", "m", "e", "t", "a", "\"", ":", "{", "\"", "n", "a", "m", "e", "\"", ":", "\"", "a", "\"", ",", "\"", "t", "y", "p", "e", "\"", ":", "\"", "c", "l", "i", "\"", ",", "\"", "v", "e", "r", "s", "i", "o", "n", "\"", ":", "\"", "f", "f", "f", "f", "f", "f", "f", "f", "\"", "}", ",", "\"", "x", "\"", ":", "[", "1", ",", "{", "\"", "k", "\"", ":", "\"", "v", "\"", ",", "\"", "j", "\"", ":", "2", "}", "]", "}" >>,
        << "5", "4", "a", "0", "1", "d", "c", "2" >> >>,
     << << "{", "\"", "m", "e", "t", "a", "\"", ":", "{", "\"", "n", "a", "m", "e", "\"", ":", "\"", "a", "\"", ",", "\"", "t", "y", "p", "e", "\"", ":", "\"", "c", "l", "i", "\"", "}", ",", "\"", "x", "\"", ":", "[", "1", ",", "{", "\"", "j", "\"", ":", "2", ",", "\"", "k", "\"", ":", "\"", "v", "\"", "}", "]", "}" >>,
        << "c", "8", "4", "c", "2", "2", "1", "0" >> >>,
     << << "{", "\"", "m", "e", "t", "a", "\"", ":", "{", "\"", "n", "a", "m", "e", "\"", ":", "\"", "a", "\"", ",", "\"", "t", "y", "p", "e", "\"", ":", "\"", "c", "l", "i", "\"", "}", ",", "\"", "x", "\"", ":", "[", "1", ",", "{", "\"", "k", "\"", ":", "\"", "v", "\"", ",", "\"", "j", "\"", ":", "2", "}", "]", "}" >>,
        << "7", "9", "0", "f", "a", "7", "e", "1" >> >>,
     << << "{", "\"", "m", "e", "t", "a", "\"", ":", "{", "\"", "n", "a", "m", "e", "\"", ":", "\"", "a", "\"", ",", "\"", "v", "e", "r", "s", "i", "o", "n", "\"", ":", "\"", "0", "0", "0", "0", "0", "0", "0", "0", "\"", ",", "\"", "t", "y", "p", "e", "\"", ":", "\"", "c", "l", "i", "\"", "}", ",", "\"", "x", "\"", ":", "[", "1", ",", "{", "\"", "k", "\"", ":", "\"", "v", "\"", ",", "\"", "j", "\"", ":", "2", "}", "]", "}" >>,
        << "7", "3", "5", "c", "4", "d", "f", "4" >> >>,
     << << "{", "\"", "m", "e", "t", "a", "\"", ":", "{", "\"", "n", "a", "m", "e", "\"", ":", "\"", "a", "\"", ",", "\"", "v", "e", "r", "s", "i", "o", "n", "\"", ":", "\"", "0", "0", "0", "0", "0", "0", "0", "0", "\"", "}", ",", "\"", "l", "\"", ":", "[", "{", "\"", "k", "\"", ":", "[", "1", "]", "}", ",", "[", "2", "]", "]", "}" >>,
        << "0", "9", "4", "4", "e", "5", "6", "a" >> >>,
     << << "{", "\"", "m", "e", "t", "a", "\"", ":", "{", "\"", "n", "a", "m", "e", "\"", ":", "\"", "a", "\"", ",", "\"", "v", "e", "r", "s", "i", "o", "n", "\"", ":", "\"", "c", "8", "4", "c", "2", "2", "1", "0", "\"", ",", "\"", "t", "y", "p", "e", "\"", ":", "\"", "c", "l", "i", "\"", "}", ",", "\"", "x", "\"", ":", "[", "1", ",", "{", "\"", "k", "\"", ":", "\"", "v", "\"", ",", "\"", "j", "\"", ":", "2", "}", "]", "}" >>,
        << "c", "8", "e", "3", "b", "a", "e", "5" >> >>,
     << << "{", "\"", "m", "e", "t", "a", "\"", ":", "{", "\"", "n", "a", "m", "e", "\"", ":", "\"", "a", "\"", ",", "\"", "v", "e", "r", "s", "i", "o", "n", "\"", ":", "\"", "f", "f", "f", "f", "f", "f", "f", "f", "\"", ",", "\"", "t", "y", "p", "e", "\"", ":", "\"", "c", "l", "i", "\"", "}", ",", "\"", "x", "\"", ":", "[", "1", ",", "{", "\"", "k", "\"", ":", "\"", "v", "\"", ",", "\"", "j", "\"", ":", "2", "}", "]", "}" >>,
        << "7", "5", "c", "b", "5", "0", "a", "b" >> >>,
     << << "{", "\"", "m", "e", "t", "a", "\"", ":", "{", "\"", "n", "a", "m", "e", "\"", ":", "\"", "a", "\"", ",", "\"", "v", "e", "r", "s", "i", "o", "n", "\"", ":", "\"", "f", "f", "f", "f", "f", "f", "f", "f", "\"", "}", ",", "\"", "l", "\"", ":", "[", "{", "\"", "k", "\"", ":", "[", "1", "]", "}", ",", "[", "2", "]", "]", "}" >>,
        << "1", "c", "3", "a", "b", "f", "5", "f" >> >>,
     << << "{", "\"", "m", "e", "t", "a", "\"", ":", "{", "\"", "n", "a", "m", "e", "\"", ":", "\"", "a", "\"", "}", ",", "\"", "l", "\"", ":", "[", "{", "\"", "k", "\"", ":", "[", "1", "]", "}", ",", "[", "2", "]", "]", "}" >>,
        << "1", "0", "a", "1", "7", "f", "a", "2" >> >>,
     << << "{", "\"", "m", "e", "t", "a", "\"", ":", "{", "\"", "n", "a", "m", "e", "\"", ":", "\"", "b", "\"", ",", "\"", "v", "e", "r", "s", "i", "o", "n", "\"", ":", "\"", "0", "0", "0", "0", "0", "0", "0", "0", "\"", "}", ",", "\"", "y", "\"", ":", "{", "\"", "n", "\"", ":", "n", "u", "l", "l", ",", "\"", "t", "\"", ":", "t", "r", "u", "e", ",", "\"", "z", "\"", ":", "[", "[", "]", "]", "}", "}" >>,
        << "4", "1", "5", "5", "d", "8", "3", "c" >> >>,
     << << "{", "\"", "m", "e", "t", "a", "\"", ":", "{", "\"", "n", "a", "m", "e", "\"", ":", "\"", "b", "\"", ",", "\"", "v", "e", "r", "s", "i", "o", "n", "\"", ":", "\"", "0", "0", "0", "0", "0", "0", "0", "0", "\"", "}", ",", "\"", "y", "\"", ":", "{", "\"", "z", "\"", ":", "[", "[", "]", "]", ",", "\"", "n", "\"", ":", "n", "u", "l", "l", ",", "\"", "t", "\"", ":", "t", "r", "u", "e", "}", "}" >>,
        << "7", "6", "4", "3", "7", "b", "9", "3" >> >>,
     << << "{", "\"", "m", "e", "t", "a", "\"", ":", "{", "\"", "n", "a", "m", "e", "\"", ":", "\"", "b", "\"", ",", "\"", "v", "e", "r", "s", "i", "o", "n", "\"", ":", "\"", "f", "f", "f", "f", "f", "f", "f", "f", "\"", "}", ",", "\"", "y", "\"", ":", "{", "\"", "n", "\"", ":", "n", "u", "l", "l", ",", "\"", "t", "\"", ":", "t", "r", "u", "e", ",", "\"", "z", "\"", ":", "[", "[", "]", "]", "}", "}" >>,
        << "b", "2", "1", "a", "0", "7", "8", "8" >> >>,
     << << "{", "\"", "m", "e", "t", "a", "\"", ":", "{", "\"", "n", "a", "m", "e", "\"", ":", "\"", "b", "\"", ",", "\"", "v", "e", "r", "s", "i", "o", "n", "\"", ":", "\"", "f", "f", "f", "f", "f", "f", "f", "f", "\"", "}", ",", "\"", "y", "\"", ":", "{", "\"", "z", "\"", ":", "[", "[", "]", "]", ",", "\"", "n", "\"", ":", "n", "u", "l", "l", ",", "\"", "t", "\"", ":", "t", "r", "u", "e", "}", "}" >>,
        << "6", "e", "2", "e", "9", "1", "c", "2" >> >>,
     << << "{", "\"", "m", "e", "t", "a", "\"", ":", "{", "\"", "n", "a", "m", "e", "\"", ":", "\"", "b", "\"", "}", ",", "\"", "y", "\"", ":", "{", "\"", "n", "\"", ":", "n", "u", "l", "l", ",", "\"", "t", "\"", ":", "t", "r", "u", "e", ",", "\"", "z", "\"", ":", "[", "[", "]", "]", "}", "}" >>,
        << "7", "2", "c", "7", "f", "9", "9", "2" >> >>,
     << << "{", "\"", "m", "e", "t", "a", "\"", ":", "{", "\"", "n", "a", "m", "e", "\"", ":", "\"", "b", "\"", "}", ",", "\"", "y", "\"", ":", "{", "\"", "z", "\"", ":", "[", "[", "]", "]", ",", "\"", "n", "\"", ":", "n", "u", "l", "l", ",", "\"", "t", "\"", ":", "t", "r", "u", "e", "}", "}" >>,
        << "6", "b", "b", "e", "1", "d", "9", "4" >> >>,
     << << "{", "\"", "m", "e", "t", "a", "\"", ":", "{", "\"", "t", "y", "p", "e", "\"", ":", "\"", "c", "l", "i", "\"", ",", "\"", "n", "a", "m", "e", "\"", ":", "\"", "a", "\"", ",", "\"", "v", "e", "r", "s", "i", "o", "n", "\"", ":", "\"", "f", "f", "f", "f", "f", "f", "f", "f", "\"", "}", ",", "\"", "x", "\"", ":", "[", "1", ",", "{", "\"", "k", "\"", ":", "\"", "v", "\"", ",", "\"", "j", "\"", ":", "2", "}", "]", "}" >>,
        << "d", "c", "5", "7", "4", "8", "3", "9" >> >>,
     << << "{", "\"", "m", "e", "t", "a", "\"", ":", "{", "\"", "t", "y", "p", "e", "\"", ":", "\"", "c", "l", "i", "\"", ",", "\"", "n", "a", "m", "e", "\"", ":", "\"", "a", "\"", "}", ",", "\"", "x", "\"", ":", "[", "1", ",", "{", "\"", "j", "\"", ":", "2", ",", "\"", "k", "\"", ":", "\"", "v", "\"", "}", "]", "}" >>,
        << "1", "3", "c", "c", "e", "5", "0", "0" >> >>,
     << << "{", "\"", "m", "e", "t", "a", "\"", ":", "{", "\"", "t", "y", "p", "e", "\"", ":", "\"", "c", "l", "i", "\"", ",", "\"", "n", "a", "m", "e", "\"", ":", "\"", "a", "\"", "}", ",", "\"", "x", "\"", ":", "[", "1", ",", "{", "\"", "k", "\"", ":", "\"", "v", "\"", ",", "\"", "j", "\"", ":", "2", "}", "]", "}" >>,
        << "e", "2", "5", "d", "7", "5", "1", "a" >> >>,
     << << "{", "\"", "m", "e", "t", "a", "\"", ":", "{", "\"", "t", "y", "p", "e", "\"", ":", "\"", "c", "l", "i", "\"", ",", "\"", "v", "e", "r", "s", "i", "o", "n", "\"", ":", "\"", "0", "0", "0", "0", "0", "0", "0", "0", "\"", ",", "\"", "n", "a", "m", "e", "\"", ":", "\"", "a", "\"", "}", ",", "\"", "x", "\"", ":", "[", "1", ",", "{", "\"", "j", "\"", ":", "2", ",", "\"", "k", "\"", ":", "\"", "v", "\"", "}", "]", "}" >>,
        << "4", "3", "9", "e", "c", "c", "4", "1" >> >>,
     << << "{", "\"", "m", "e", "t", "a", "\"", ":", "{", "\"", "t", "y", "p", "e", "\"", ":", "\"", "c", "l", "i", "\"", ",", "\"", "v", "e", "r", "s", "i", "o", "n", "\"", ":", "\"", "0", "0", "0", "0", "0", "0", "0", "0", "\"", ",", "\"", "n", "a", "m", "e", "\"", ":", "\"", "a", "\"", "}", ",", "\"", "x", "\"", ":", "[", "1", ",", "{", "\"", "k", "\"", ":", "\"", "v", "\"", ",", "\"", "j", "\"", ":", "2", "}", "]", "}" >>,
        << "d", "4", "5", "7", "b", "f", "6", "4" >> >>,
     << << "{", "\"", "m", "e", "t", "a", "\"", ":", "{", "\"", "t", "y", "p", "e", "\"", ":", "\"", "c", "l", "i", "\"", ",", "\"", "v", "e", "r", "s", "i", "o", "n", "\"", ":", "\"", "c", "8", "4", "c", "2", "2", "1", "0", "\"", ",", "\"", "n", "a", "m", "e", "\"", ":", "\"", "a", "\"", "}", ",", "\"", "x", "\"", ":", "[", "1", ",", "{", "\"", "k", "\"", ":", "\"", "v", "\"", ",", "\"", "j", "\"", ":", "2", "}", "]", "}" >>,
        << "8", "8", "3", "3", "8", "9", "a", "3" >> >>,
     << << "{", "\"", "m", "e", "t", "a", "\"", ":", "{", "\"", "v", "e", "r", "s", "i", "o", "n", "\"", ":", "\"", "0", "0", "0", "0", "0", "0", "0", "0", "\"", ",", "\"", "n", "a", "m", "e", "\"", ":", "\"", "a", "\"", ",", "\"", "t", "y", "p", "e", "\"", ":", "\"", "c", "l", "i", "\"", "}", ",", "\"", "x", "\"", ":", "[", "1", ",", "{", "\"", "k", "\"", ":", "\"", "v", "\"", ",", "\"", "j", "\"", ":", "2", "}", "]", "}" >>,
        << "3", "0", "e", "c", "7", "0", "0", "1" >> >>,
     << << "{", "\"", "m", "e", "t", "a", "\"", ":", "{", "\"", "v", "e", "r", "s", "i", "o", "n", "\"", ":", "\"", "0", "0", "0", "0", "0", "0", "0", "0", "\"", ",", "\"", "n", "a", "m", "e", "\"", ":", "\"", "a", "\"", "}", ",", "\"", "l", "\"", ":", "[", "{", "\"", "k", "\"", ":", "[", "1", "]", "}", ",", "[", "2", "]", "]", "}" >>,
        << "8", "1", "c", "4", "1", "9", "d", "8" >> >>,
     << << "{", "\"", "m", "e", "t", "a", "\"", ":", "{", "\"", "v", "e", "r", "s", "i", "o", "n", "\"", ":", "\"", "0", "0", "0", "0", "0", "0", "0", "0", "\"", "}", ",", "\"", "x", "\"", ":", "[", "1", "]", "}" >>,
        << "1", "4", "9", "b", "0", "1", "1", "9" >> >>,
     << << "{", "\"", "m", "e", "t", "a", "\"", ":", "{", "\"", "v", "e", "r", "s", "i", "o", "n", "\"", ":", "\"", "0", "0", "0", "0", "0", "0", "0", "0", "\"", "}", ",", "\"", "x", "\"", ":", "[", "]", "}" >>,
        << "5", "e", "a", "5", "b", "2", "7", "3" >> >>,
     << << "{", "\"", "m", "e", "t", "a", "\"", ":", "{", "\"", "v", "e", "r", "s", "i", "o", "n", "\"", ":", "\"", "0", "0", "0", "0", "0", "0", "0", "0", "\"", "}", "}" >>,
        << "b", "f", "b", "0", "b", "b", "7", "d" >> >>,
     << << "{", "\"", "m", "e", "t", "a", "\"", ":", "{", "\"", "v", "e", "r", "s", "i", "o", "n", "\"", ":", "\"", "f", "f", "f", "f", "f", "f", "f", "f", "\"", ",", "\"", "n", "a", "m", "e", "\"", ":", "\"", "a", "\"", ",", "\"", "t", "y", "p", "e", "\"", ":", "\"", "c", "l", "i", "\"", "}", ",", "\"", "x", "\"", ":", "[", "1", ",", "{", "\"", "k", "\"", ":", "\"", "v", "\"", ",", "\"", "j", "\"", ":", "2", "}", "]", "}" >>,
        << "f", "b", "f", "6", "d", "7", "f", "d" >> >>,
     << << "{", "\"", "m", "e", "t", "a", "\"", ":", "{", "\"", "v", "e", "r", "s", "i", "o", "n", "\"", ":", "\"", "f", "f", "f", "f", "f", "f", "f", "f", "\"", "}", ",", "\"", "x", "\"", ":", "[", "1", "]", "}" >>,
        << "0", "e", "c", "0", "1", "c", "9", "e" >> >>,
     << << "{", "\"", "m", "e", "t", "a", "\"", ":", "{", "\"", "v", "e", "r", "s", "i", "o", "n", "\"", ":", "\"", "f", "f", "f", "f", "f", "f", "f", "f", "\"", "}", ",", "\"", "x", "\"", ":", "[", "]", "}" >>,
        << "e", "2", "f", "1", "5", "b", "1", "5" >> >>,
     << << "{", "\"", "m", "e", "t", "a", "\"", ":", "{", "\"", "v", "e", "r", "s", "i", "o", "n", "\"", ":", "\"", "f", "f", "f", "f", "f", "f", "f", "f", "\"", "}", "}" >>,
        << "d", "b", "5", "2", "8", "a", "0", "6" >> >>,
     << << "{", "\"", "m", "e", "t", "a", "\"", ":", "{", "}", ",", "\"", "x", "\"", ":", "[", "1", "]", "}" >>,
        << "4", "5", "5", "d", "3", "7", "4", "9" >> >>,
     << << "{", "\"", "m", "e", "t", "a", "\"", ":", "{", "}", ",", "\"", "x", "\"", ":", "[", "]", "}" >>,
        << "2", "8", "f", "3", "d", "3", "e", "2" >> >>,
     << << "{", "\"", "m", "e", "t", "a", "\"", ":", "{", "}", "}" >>,
        << "e", "6", "8", "7", "e", "f", "9", "2" >> >>,
     << << "{", "\"", "x", "\"", ":", "[", "1", ",", "{", "\"", "j", "\"", ":", "2", ",", "\"", "k", "\"", ":", "\"", "v", "\"", "}", "]", ",", "\"", "m", "e", "t", "a", "\"", ":", "{", "\"", "n", "a", "m", "e", "\"", ":", "\"", "a", "\"", ",", "\"", "t", "y", "p", "e", "\"", ":", "\"", "c", "l", "i", "\"", "}", "}" >>,
        << "a", "d", "9", "4", "0", "3", "8", "8" >> >>,
     << << "{", "\"", "x", "\"", ":", "[", "1", ",", "{", "\"", "j", "\"", ":", "2", ",", "\"", "k", "\"", ":", "\"", "v", "\"", "}", "]", ",", "\"", "m", "e", "t", "a", "\"", ":", "{", "\"", "n", "a", "m", "e", "\"", ":", "\"", "a", "\"", ",", "\"", "v", "e", "r", "s", "i", "o", "n", "\"", ":", "\"", "0", "0", "0", "0", "0", "0", "0", "0", "\"", ",", "\"", "t", "y", "p", "e", "\"", ":", "\"", "c", "l", "i", "\"", "}", "}" >>,
        << "a", "4", "4", "f", "e", "2", "7", "b" >> >>,
     << << "{", "\"", "x", "\"", ":", "[", "1", ",", "{", "\"", "j", "\"", ":", "2", ",", "\"", "k", "\"", ":", "\"", "v", "\"", "}", "]", ",", "\"", "m", "e", "t", "a", "\"", ":", "{", "\"", "t", "y", "p", "e", "\"", ":", "\"", "c", "l", "i", "\"", ",", "\"", "n", "a", "m", "e", "\"", ":", "\"", "a", "\"", ",", "\"", "v", "e", "r", "s", "i", "o", "n", "\"", ":", "\"", "f", "f", "f", "f", "f", "f", "f", "f", "\"", "}", "}" >>,
        << "4", "6", "5", "f", "7", "8", "4", "9" >> >>,
     << << "{", "\"", "x", "\"", ":", "[", "1", ",", "{", "\"", "j", "\"", ":", "2", ",", "\"", "k", "\"", ":", "\"", "v", "\"", "}", "]", ",", "\"", "m", "e", "t", "a", "\"", ":", "{", "\"", "t", "y", "p", "e", "\"", ":", "\"", "c", "l", "i", "\"", ",", "\"", "n", "a", "m", "e", "\"", ":", "\"", "a", "\"", "}", "}" >>,
        << "6", "5", "b", "f", "6", "8", "1", "1" >> >>,
     << << "{", "\"", "x", "\"", ":", "[", "1", ",", "{", "\"", "j", "\"", ":", "2", ",", "\"", "k", "\"", ":", "\"", "v", "\"", "}", "]", ",", "\"", "m", "e", "t", "a", "\"", ":", "{", "\"", "t", "y", "p", "e", "\"", ":", "\"", "c", "l", "i", "\"", ",", "\"", "v", "e", "r", "s", "i", "o", "n", "\"", ":", "\"", "0", "0", "0", "0", "0", "0", "0", "0", "\"", ",", "\"", "n", "a", "m", "e", "\"", ":", "\"", "a", "\"", "}", "}" >>,
        << "9", "e", "5", "f", "8", "b", "8", "a" >> >>,
     << << "{", "\"", "x", "\"", ":", "[", "1", ",", "{", "\"", "j", "\"", ":", "2", ",", "\"", "k", "\"", ":", "\"", "v", "\"", "}", "]", ",", "\"", "m", "e", "t", "a", "\"", ":", "{", "\"", "t", "y", "p", "e", "\"", ":", "\"", "c", "l", "i", "\"", ",", "\"", "v", "e", "r", "s", "i", "o", "n", "\"", ":", "\"", "c", "8", "4", "c", "2", "2", "1", "0", "\"", ",", "\"", "n", "a", "m", "e", "\"", ":", "\"", "a", "\"", "}", "}" >>,
        << "e", "9", "f", "f", "7", "3", "1", "1" >> >>,
     << << "{", "\"", "x", "\"", ":", "[", "1", ",", "{", "\"", "j", "\"", ":", "2", ",", "\"", "k", "\"", ":", "\"", "v", "\"", "}", "]", ",", "\"", "m", "e", "t", "a", "\"", ":", "{", "\"", "t", "y", "p", "e", "\"", ":", "\"", "c", "l", "i", "\"", ",", "\"", "v", "e", "r", "s", "i", "o", "n", "\"", ":", "\"", "f", "f", "f", "f", "f", "f", "f", "f", "\"", ",", "\"", "n", "a", "m", "e", "\"", ":", "\"", "a", "\"", "}", "}" >>,
        << "e", "8", "9", "0", "2", "f", "8", "4" >> >>,
     << << "{", "\"", "x", "\"", ":", "[", "1", ",", "{", "\"", "k", "\"", ":", "\"", "v", "\"", ",", "\"", "j", "\"", ":", "2", "}", "]", ",", "\"", "m", "e", "t", "a", "\"", ":", "{", "\"", "n", "a", "m", "e", "\"", ":", "\"", "a", "\"", ",", "\"", "t", "y", "p", "e", "\"", ":", "\"", "c", "l", "i", "\"", "}", "}" >>,
        << "8", "a", "d", "e", "1", "3", "f", "8" >> >>,
     << << "{", "\"", "x", "\"", ":", "[", "1", ",", "{", "\"", "k", "\"", ":", "\"", "v", "\"", ",", "\"", "j", "\"", ":", "2", "}", "]", ",", "\"", "m", "e", "t", "a", "\"", ":", "{", "\"", "n", "a", "m", "e", "\"", ":", "\"", "a", "\"", ",", "\"", "v", "e", "r", "s", "i", "o", "n", "\"", ":", "\"", "0", "0", "0", "0", "0", "0", "0", "0", "\"", ",", "\"", "t", "y", "p", "e", "\"", ":", "\"", "c", "l", "i", "\"", "}", "}" >>,
        << "a", "8", "9", "0", "f", "6", "4", "a" >> >>,
     << << "{", "\"", "x", "\"", ":", "[", "1", ",", "{", "\"", "k", "\"", ":", "\"", "v", "\"", ",", "\"", "j", "\"", ":", "2", "}", "]", ",", "\"", "m", "e", "t", "a", "\"", ":", "{", "\"", "n", "a", "m", "e", "\"", ":", "\"", "a", "\"", ",", "\"", "v", "e", "r", "s", "i", "o", "n", "\"", ":", "\"", "c", "8", "4", "c", "2", "2", "1", "0", "\"", ",", "\"", "t", "y", "p", "e", "\"", ":", "\"", "c", "l", "i", "\"", "}", "}" >>,
        << "4", "6", "5", "1", "5", "9", "0", "4" >> >>,
     << << "{", "\"", "x", "\"", ":", "[", "1", ",", "{", "\"", "k", "\"", ":", "\"", "v", "\"", ",", "\"", "j", "\"", ":", "2", "}", "]", ",", "\"", "m", "e", "t", "a", "\"", ":", "{", "\"", "t", "y", "p", "e", "\"", ":", "\"", "c", "l", "i", "\"", ",", "\"", "n", "a", "m", "e", "\"", ":", "\"", "a", "\"", ",", "\"", "v", "e", "r", "s", "i", "o", "n", "\"", ":", "\"", "0", "0", "0", "0", "0", "0", "0", "0", "\"", "}", "}" >>,
        << "7", "c", "5", "3", "f", "7", "a", "7" >> >>,
     << << "{", "\"", "x", "\"", ":", "[", "1", ",", "{", "\"", "k", "\"", ":", "\"", "v", "\"", ",", "\"", "j", "\"", ":", "2", "}", "]", ",", "\"", "m", "e", "t", "a", "\"", ":", "{", "\"", "t", "y", "p", "e", "\"", ":", "\"", "c", "l", "i", "\"", ",", "\"", "n", "a", "m", "e", "\"", ":", "\"", "a", "\"", ",", "\"", "v", "e", "r", "s", "i", "o", "n", "\"", ":", "\"", "f", "f", "f", "f", "f", "f", "f", "f", "\"", "}", "}" >>,
        << "2", "7", "6", "b", "9", "3", "b", "3" >> >>,
     << << "{", "\"", "x", "\"", ":", "[", "1", ",", "{", "\"", "k", "\"", ":", "\"", "v", "\"", ",", "\"", "j", "\"", ":", "2", "}", "]", ",", "\"", "m", "e", "t", "a", "\"", ":", "{", "\"", "t", "y", "p", "e", "\"", ":", "\"", "c", "l", "i", "\"", ",", "\"", "n", "a", "m", "e", "\"", ":", "\"", "a", "\"", "}", "}" >>,
        << "b", "3", "3", "a", "d", "d", "2", "f" >> >>,
     << << "{", "\"", "x", "\"", ":", "[", "1", ",", "{", "\"", "k", "\"", ":", "\"", "v", "\"", ",", "\"", "j", "\"", ":", "2", "}", "]", ",", "\"", "m", "e", "t", "a", "\"", ":", "{", "\"", "v", "e", "r", "s", "i", "o", "n", "\"", ":", "\"", "f", "f", "f", "f", "f", "f", "f", "f", "\"", ",", "\"", "n", "a", "m", "e", "\"", ":", "\"", "a", "\"", ",", "\"", "t", "y", "p", "e", "\"", ":", "\"", "c", "l", "i", "\"", "}", "}" >>,
        << "b", "f", "3", "c", "9", "8", "b", "6" >> >>,
     << << "{", "\"", "x", "\"", ":", "[", "1", "]", ",", "\"", "m", "e", "t", "a", "\"", ":", "{", "\"", "v", "e", "r", "s", "i", "o", "n", "\"", ":", "\"", "0", "0", "0", "0", "0", "0", "0", "0", "\"", "}", "}" >>,
        << "d", "8", "9", "b", "7", "a", "7", "7" >> >>,
     << << "{", "\"", "x", "\"", ":", "[", "1", "]", ",", "\"", "m", "e", "t", "a", "\"", ":", "{", "\"", "v", "e", "r", "s", "i", "o", "n", "\"", ":", "\"", "f", "f", "f", "f", "f", "f", "f", "f", "\"", "}", "}" >>,
        << "8", "5", "b", "8", "9", "8", "4", "2" >> >>,
     << << "{", "\"", "x", "\"", ":", "[", "1", "]", ",", "\"", "m", "e", "t", "a", "\"", ":", "{", "}", "}" >>,
        << "8", "8", "9", "e", "e", "9", "d", "5" >> >>,
     << << "{", "\"", "x", "\"", ":", "[", "1", "]", "}" >>,
        << "2", "5", "5", "7", "9", "c", "b", "e" >> >>,
     << << "{", "\"", "x", "\"", ":", "[", "]", ",", "\"", "m", "e", "t", "a", "\"", ":", "{", "}", "}" >>,
        << "c", "d", "9", "3", "7", "b", "9", "8" >> >>,
     << << "{", "\"", "y", "\"", ":", "{", "\"", "t", "\"", ":", "t", "r", "u", "e", ",", "\"", "n", "\"", ":", "n", "u", "l", "l", ",", "\"", "z", "\"", ":", "[", "[", "]", "]", "}", ",", "\"", "m", "e", "t", "a", "\"", ":", "{", "\"", "n", "a", "m", "e", "\"", ":", "\"", "b", "\"", "}", "}" >>,
        << "c", "1", "4", "e", "c", "8", "4", "2" >> >>,
     << << "{", "\"", "y", "\"", ":", "{", "\"", "z", "\"", ":", "[", "[", "]", "]", ",", "\"", "n", "\"", ":", "n", "u", "l", "l", ",", "\"", "t", "\"", ":", "t", "r", "u", "e", "}", ",", "\"", "m", "e", "t", "a", "\"", ":", "{", "\"", "n", "a", "m", "e", "\"", ":", "\"", "b", "\"", "}", "}" >>,
        << "4", "5", "f", "d", "6", "4", "3", "f" >> >>,
     << << "{", "}" >>,
        << "4", "4", "1", "3", "6", "f", "a", "3" >> >> >>

sha256_hexdigest8(normalized) ==
  Sha256Table[CHOOSE i \in 1..Len(Sha256Table) : Sha256Table[i][1] = normalized][2]

\* a fingerprint of the normalized text with the keys in insertion order
version_calculate_unsorted(skill_dict) ==
  sha256_hexdigest8(json_dumps(version_deep_copy_without_version(skill_dict), FALSE))

\* version.calculate_version, on a document with identity
version_calculate(skill_dict) ==
  sha256_hexdigest8(json_dumps(version_deep_copy_without_version(skill_dict), TRUE))

\* skill_dict.get("meta", {}).get("version", "")
StoredVersion(skill_dict) ==
  IF OHas(skill_dict.v, KEY_meta) /\ OHas(OGet(skill_dict.v, KEY_meta).v, KEY_version)
  THEN OGet(OGet(skill_dict.v, KEY_meta).v, KEY_version)
  ELSE StrVal(<< >>)

\* version.verify_version, on a document with identity: the tuple
\* (is_valid, stored, calculated)
version_verify(skill_dict) ==
  LET stored == StoredVersion(skill_dict)
      calculated == version_calculate(skill_dict)
  IN  [is_valid |-> stored.t = "str" /\ stored.v = calculated,
       stored |-> stored, calculated |-> calculated]

RECURSIVE Assigned(_, _, _, _)
\* a value after d[key] = item on its dict of identity id
Assigned(value, id, key, item) ==
  IF value.t = "dict"
  THEN LET items == [i \in 1..Len(value.v) |->
                       << value.v[i][1], Assigned(value.v[i][2], id, key, item) >>]
       IN  ODict(value.id, IF value.id = id THEN SetItem(items, key, item) ELSE items)
  ELSE IF value.t = "list"
  THEN OList(value.id, [i \in 1..Len(value.v) |-> Assigned(value.v[i], id, key, item)])
  ELSE value

\* version.update_version: result["meta"] raises KeyError on a document
\* without meta; the assignment is made on the dict that result["meta"] is
update_version(skill_dict) ==
  LET result == _deep_copy_value(skill_dict)
  IN  IF ~ OHas(result.v, KEY_meta) THEN Raise("KeyError", KEY_meta)
      ELSE Return(Assigned(result, OGet(result.v, KEY_meta).id, KEY_version,
                           StrVal(version_calculate(skill_dict))))

\* the document given to update_version, after the call
update_version_argument(skill_dict) ==
  LET result == _deep_copy_value(skill_dict)
  IN  IF ~ OHas(result.v, KEY_meta) THEN skill_dict
      ELSE Assigned(skill_dict, OGet(result.v, KEY_meta).id, KEY_version,
                    StrVal(version_calculate(skill_dict)))

RECURSIVE Ids(_)
\* the identities of the objects of a value
Ids(value) ==
  IF value.t = "dict"
  THEN {value.id} \cup UNION { Ids(value.v[i][2]) : i \in 1..Len(value.v) }
  ELSE IF value.t = "list"
  THEN {value.id} \cup UNION { Ids(value.v[i]) : i \in 1..Len(value.v) }
  ELSE {}

RECURSIVE Mutated(_, _)
\* a value after the caller has changed its object id: d["z"] = 0 on a
\* dict, l.append(0) on a list
Mutated(value, id) ==
  IF value.t = "dict"
  THEN LET items == [i \in 1..Len(value.v) |->
                       << value.v[i][1], Mutated(value.v[i][2], id) >>]
       IN  ODict(value.id, IF value.id = id THEN SetItem(items, << "z" >>, IntVal(0)) ELSE items)
  ELSE IF value.t = "list"
  THEN LET elems == [i \in 1..Len(value.v) |-> Mutated(value.v[i], id)]
       IN  OList(value.id, IF value.id = id THEN Append(elems, IntVal(0)) ELSE elems)
  ELSE value

\* ----------------------------------------- actions of the version functions
\* The documents given: with a stored version that is not theirs, the same
\* content in another key order, without a stored version, without meta,
\* with their own version, with empty containers, and with nested ones.
VDoc1 ==
  ODict(1, << << KEY_meta, ODict(2, << << KEY_name, StrVal(<< "a" >>) >>, << KEY_version, StrVal(<< "0", "0", "0", "0", "0", "0", "0", "0" >>) >>, << KEY_type, StrVal(<< "c", "l", "i" >>) >> >>) >>, << << "x" >>, OList(3, << IntVal(1), ODict(4, << << << "k" >>, StrVal(<< "v" >>) >>, << << "j" >>, IntVal(2) >> >>) >>) >> >>)

VDoc2 ==
  ODict(1, << << << "x" >>, OList(2, << IntVal(1), ODict(3, << << << "j" >>, IntVal(2) >>, << << "k" >>, StrVal(<< "v" >>) >> >>) >>) >>, << KEY_meta, ODict(4, << << KEY_type, StrVal(<< "c", "l", "i" >>) >>, << KEY_version, StrVal(<< "0", "0", "0", "0", "0", "0", "0", "0" >>) >>, << KEY_name, StrVal(<< "a" >>) >> >>) >> >>)

VDoc3 ==
  ODict(1, << << KEY_meta, ODict(2, << << KEY_name, StrVal(<< "a" >>) >>, << KEY_type, StrVal(<< "c", "l", "i" >>) >> >>) >>, << << "x" >>, OList(3, << IntVal(1), ODict(4, << << << "k" >>, StrVal(<< "v" >>) >>, << << "j" >>, IntVal(2) >> >>) >>) >> >>)

VDoc4 ==
  ODict(1, << << << "x" >>, OList(2, << IntVal(1) >>) >> >>)

VDoc5 ==
  ODict(1, << << KEY_meta, ODict(2, << << KEY_name, StrVal(<< "a" >>) >>, << KEY_version, StrVal(<< "c", "8", "4", "c", "2", "2", "1", "0" >>) >>, << KEY_type, StrVal(<< "c", "l", "i" >>) >> >>) >>, << << "x" >>, OList(3, << IntVal(1), ODict(4, << << << "k" >>, StrVal(<< "v" >>) >>, << << "j" >>, IntVal(2) >> >>) >>) >> >>)

VDoc6 ==
  ODict(1, << << KEY_meta, ODict(2, << >>) >>, << << "x" >>, OList(3, << >>) >> >>)

VDoc7 ==
  ODict(1, << << KEY_meta, ODict(2, << << KEY_version, StrVal(<< "f", "f", "f", "f", "f", "f", "f", "f" >>) >>, << KEY_name, StrVal(<< "a" >>) >>, << KEY_type, StrVal(<< "c", "l", "i" >>) >> >>) >>, << << "x" >>, OList(3, << IntVal(1), ODict(4, << << << "k" >>, StrVal(<< "v" >>) >>, << << "j" >>, IntVal(2) >> >>) >>) >> >>)

VDoc8 ==
  ODict(1, << >>)

VDoc9 ==
  ODict(1, << << KEY_meta, ODict(2, << << KEY_name, StrVal(<< "b" >>) >> >>) >>, << << "y" >>, ODict(3, << << << "z" >>, OList(4, << OList(5, << >>) >>) >>, << << "n" >>, NoneVal >>, << << "t" >>, BoolVal(TRUE) >> >>) >> >>)

VDoc10 ==
  ODict(1, << << << "x" >>, OList(2, << IntVal(1), ODict(3, << << << "k" >>, StrVal(<< "v" >>) >>, << << "j" >>, IntVal(2) >> >>) >>) >>, << KEY_meta, ODict(4, << << KEY_type, StrVal(<< "c", "l", "i" >>) >>, << KEY_name, StrVal(<< "a" >>) >> >>) >> >>)

VDoc11 ==
  ODict(1, << << KEY_meta, ODict(2, << << KEY_name, StrVal(<< "a" >>) >>, << KEY_version, StrVal(<< "0", "0", "0", "0", "0", "0", "0", "0" >>) >> >>) >>, << << "l" >>, OList(3, << ODict(4, << << << "k" >>, OList(5, << IntVal(1) >>) >> >>), OList(6, << IntVal(2) >>) >>) >> >>)

VDocs == << VDoc1, VDoc2, VDoc3, VDoc4, VDoc5, VDoc6, VDoc7, VDoc8, VDoc9, VDoc10, VDoc11 >>


\* what a call left: the operation, the object the caller changed (0 for
\* none), and what the call returned or raised
VOut(op, id, ret) == [op |-> op, id |-> id, ret |-> ret]

\* a document is given to the functions
VInit ==
  /\ ExecutorIdle
  /\ RuntimeIdle
  /\ QueryIdle
  /\ BuildIdle
  /\ \E d \in 1..Len(VDocs) : vin = VDocs[d]
  /\ vout = VOut("none", 0, Return(NoneVal))

\* calculate_version(vin)
VCalculate ==
  /\ vout.op = "none"
  /\ vout' = VOut("calculate_version", 0, Return(StrVal(version_calculate(vin))))
  /\ UNCHANGED <<vin, vars, rtvars, qvars, bvars>>

\* verify_version(vin)
VVerify ==
  /\ vout.op = "none"
  /\ vout' = VOut("verify_version", 0, Return(version_verify(vin)))
  /\ UNCHANGED <<vin, vars, rtvars, qvars, bvars>>

\* update_version(vin)
VUpdate ==
  /\ vout.op = "none"
  /\ vout' = VOut("update_version", 0, update_version(vin))
  /\ vin' = update_version_argument(vin)
  /\ UNCHANGED <<vars, rtvars, qvars, bvars>>

\* after update_version has returned, the caller changes an object of the
\* document or of the returned one
VMutate(id) ==
  /\ vout.op = "update_version"
  /\ vout.ret.kind = "return"
  /\ id \in Ids(vin) \cup Ids(vout.ret.value)
  /\ vin' = Mutated(vin, id)
  /\ vout' = VOut("mutate", id, Return(Mutated(vout.ret.value, id)))
  /\ UNCHANGED <<vars, rtvars, qvars, bvars>>

VNext ==
  \/ VCalculate
  \/ VVerify
  \/ VUpdate
  \/ \E id \in 1..(2 * MaxObjects) : VMutate(id)

SpecVersion == VInit /\ [][VNext]_<<vars, rtvars, qvars, vvars, bvars>>

\* ------------------------------------------ properties of the version functions
\* two stored versions that are the fingerprint of no document of the model
V1 == << "0", "0", "0", "0", "0", "0", "0", "0" >>

V2 == << "f", "f", "f", "f", "f", "f", "f", "f" >>

\* the document with meta.version set to v (on a copy)
WithVersion(skill_dict, v) ==
  LET meta == IF OHas(skill_dict.v, KEY_meta) THEN OGet(skill_dict.v, KEY_meta)
              ELSE ODict(MaxObjects, << >>)
  IN  ODict(skill_dict.id,
            SetItem(skill_dict.v, KEY_meta,
                    ODict(meta.id, SetItem(meta.v, KEY_version, StrVal(v)))))

\* the document with meta.version deleted
WithoutVersion(skill_dict) ==
  IF ~ OHas(skill_dict.v, KEY_meta) THEN skill_dict
  ELSE LET meta == OGet(skill_dict.v, KEY_meta)
       IN  ODict(skill_dict.id,
                 SetItem(skill_dict.v, KEY_meta,
                         ODict(meta.id, SelectSeq(meta.v, LAMBDA item : item[1] # KEY_version))))

Reversed(s) == [i \in 1..Len(s) |-> s[Len(s) + 1 - i]]

\* the document with its top-level keys inserted in the opposite order
ReorderedTop(skill_dict) == ODict(skill_dict.id, Reversed(skill_dict.v))

\* the document with the keys of meta inserted in the opposite order
ReorderedMeta(skill_dict) ==
  IF ~ OHas(skill_dict.v, KEY_meta) THEN skill_dict
  ELSE LET meta == OGet(skill_dict.v, KEY_meta)
       IN  ODict(skill_dict.id,
                 SetItem(skill_dict.v, KEY_meta, ODict(meta.id, Reversed(meta.v))))

RECURSIVE ReorderedDeep(_)
\* the value with the keys of every dict, at any depth, inserted in the
\* opposite order; lists keep their order
ReorderedDeep(value) ==
  IF value.t = "dict"
  THEN ODict(value.id,
             Reversed([i \in 1..Len(value.v) |->
                         << value.v[i][1], ReorderedDeep(value.v[i][2]) >>]))
  ELSE IF value.t = "list"
  THEN OList(value.id, [i \in 1..Len(value.v) |-> ReorderedDeep(value.v[i])])
  ELSE value

\* C23: calculate_version does not depend on the stored fingerprint. For
\* the document D given to calculate_version, the documents D with
\* meta.version = V1, D with meta.version = V2 and the former with the
\* meta.version field deleted all have the same fingerprint, and when D has
\* a meta block it is the fingerprint the call returned for D.
C23_StoredVersionIgnored ==
  vout.op = "calculate_version" =>
    LET a == WithVersion(vin, V1)
        b == WithVersion(vin, V2)
    IN  /\ version_calculate(a) = version_calculate(b)
        /\ version_calculate(a) = version_calculate(WithoutVersion(a))
        /\ OHas(vin.v, KEY_meta) => vout.ret.value.v = version_calculate(a)

\* calculate_version has returned on a document that stores a version
C23_Witness ==
  /\ vout.op = "calculate_version"
  /\ StoredVersion(vin).v = V2
  /\ vout.ret.value.v # V2

\* C24: calculate_version is deterministic and does not depend on the
\* insertion order of the keys of any mapping. The fingerprint returned
\* for the document D is the one of D calculated again, of D with its
\* top-level keys in the opposite order, of D with the keys of meta in the
\* opposite order, and of D with the keys of every mapping at every depth
\* in the opposite order (the sequences in the same order).
C24_KeyOrderIgnored ==
  vout.op = "calculate_version" =>
    /\ vout.ret.value.v = version_calculate(vin)
    /\ vout.ret.value.v = version_calculate(ReorderedTop(vin))
    /\ vout.ret.value.v = version_calculate(ReorderedMeta(vin))
    /\ vout.ret.value.v = version_calculate(ReorderedDeep(vin))

\* calculate_version has returned on a document whose text depends on the
\* order of its keys at top level, inside meta and below
C24_Witness ==
  /\ vout.op = "calculate_version"
  /\ json_dumps(ReorderedTop(vin), FALSE) # json_dumps(vin, FALSE)
  /\ json_dumps(ReorderedMeta(vin), FALSE) # json_dumps(vin, FALSE)
  /\ json_dumps(ReorderedDeep(vin), FALSE)
       \notin { json_dumps(vin, FALSE), json_dumps(ReorderedTop(vin), FALSE),
                json_dumps(ReorderedTop(ReorderedMeta(vin)), FALSE) }

C26_IndependentCopy ==
  [][ /\ vout'.op \in {"calculate_version", "verify_version", "update_version"} => vin' = vin
      /\ (vout'.op = "update_version" /\ vout'.ret.kind = "return")
           => Ids(vout'.ret.value) \cap Ids(vin') = {}
      /\ (vout'.op = "mutate" /\ vout'.id \in Ids(vout.ret.value))
           => vin' = vin /\ vout'.ret.value # vout.ret.value
      /\ (vout'.op = "mutate" /\ vout'.id \in Ids(vin))
           => vout'.ret.value = vout.ret.value /\ vin' # vin
    ]_<<vars, rtvars, qvars, vvars, bvars>>

\* an inner sequence of the document returned by update_version has been
\* changed
C26_Witness ==
  /\ vout.op = "mutate"
  /\ vout.id \in Ids(vout.ret.value) \ {vout.ret.value.id}
  /\ \E i \in 1..Len(vout.ret.value.v) :
       /\ vout.ret.value.v[i][2].t = "list"
       /\ vout.id \in Ids(vout.ret.value.v[i][2]) \ {vout.ret.value.v[i][2].id}

\* ------------------------------------- build_command and validate_args
\* CommandExecutor.build_command
build_command(skill, command_path, args) ==
  IF ~ Known(skill, command_path)
  THEN Raise("ValueError", << "U", "n", "k", "n", "o", "w", "n", " ", "c", "o", "m", "m", "a", "n", "d", ":", " " >> \o command_path)
  ELSE Return(_build_command(skill, Get(skill, "commands", EmptyDict)[command_path], args))

RECURSIVE MissingRequired(_, _)
\* validate_args, the loop that checks required arguments
MissingRequired(arglist, args) ==
  IF arglist = << >> THEN << >>
  ELSE LET arg == Head(arglist)
       IN  (IF Get(arg, "required", FALSE) /\ arg.name \notin DOMAIN args
            THEN << << "M", "i", "s", "s", "i", "n", "g", " ", "r", "e", "q", "u", "i", "r", "e", "d", " ", "a", "r", "g", "u", "m", "e", "n", "t", ":", " " >> \o arg.name >>
            ELSE << >>)
           \o MissingRequired(Tail(arglist), args)

\* int(value) raises neither ValueError nor TypeError
IntAccepts(value) ==
  IF value.t = "str" THEN int(value.v).ok ELSE value.t = "bool"

\* value in allowed, for a list of strs
InAllowed(value, allowed) ==
  value.t = "str" /\ \E i \in 1..Len(allowed) : allowed[i] = value.v

\* validate_args, one pass of the loop that checks argument types
WrongType(arg, args) ==
  IF arg.name \notin DOMAIN args THEN << >>
  ELSE LET value == args[arg.name]
           arg_type == Get(arg, "type", "string")
           allowed == Get(arg, "values", << >>)
       IN  IF arg_type = "int"
           THEN (IF IntAccepts(value) THEN << >>
                 ELSE << << "A", "r", "g", "u", "m", "e", "n", "t", " ", "'" >> \o arg.name \o << "'", " ", "m", "u", "s", "t", " ", "b", "e", " ", "a", "n", " ", "i", "n", "t", "e", "g", "e", "r" >> >>)
           ELSE IF arg_type = "bool"
           THEN (IF value.t = "bool" THEN << >>
                 ELSE << << "A", "r", "g", "u", "m", "e", "n", "t", " ", "'" >> \o arg.name \o << "'", " ", "m", "u", "s", "t", " ", "b", "e", " ", "a", " ", "b", "o", "o", "l", "e", "a", "n" >> >>)
           ELSE IF arg_type = "enum"
           THEN (IF allowed # << >> /\ ~ InAllowed(value, allowed)
                 THEN << << "A", "r", "g", "u", "m", "e", "n", "t", " ", "'" >> \o arg.name \o << "'", " ", "m", "u", "s", "t", " ", "b", "e", " ", "o", "n", "e", " ", "o", "f", ":", " " >>
                           \o Join(allowed, << ",", " " >>) >>
                 ELSE << >>)
           ELSE << >>

RECURSIVE WrongTypes(_, _)
\* validate_args, the loop that checks argument types
WrongTypes(arglist, args) ==
  IF arglist = << >> THEN << >>
  ELSE WrongType(Head(arglist), args) \o WrongTypes(Tail(arglist), args)

\* CommandExecutor.validate_args
validate_args(skill, command_path, args) ==
  IF ~ Known(skill, command_path)
  THEN << << "U", "n", "k", "n", "o", "w", "n", " ", "c", "o", "m", "m", "a", "n", "d", ":", " " >> \o command_path >>
  ELSE LET cmd_def == Get(skill, "commands", EmptyDict)[command_path]
           arglist == Get(cmd_def, "args", << >>)
       IN  MissingRequired(arglist, args) \o WrongTypes(arglist, args)

\* The document the executor under study is constructed with, after the
\* cli skill of tests/conftest.py; `copy` declares two required arguments
\* and an optional one of type int, `refresh` one with a default.
BuildSkill ==
  [ global_flags |->
      << [ name |-> << "-", "-", "v", "e", "r", "b", "o", "s", "e" >>, short |-> << "-", "v" >>, type |-> "bool" ],
         [ name |-> << "-", "-", "c", "o", "n", "f", "i", "g" >>, type |-> "string" ] >>,
    commands |->
      (<< "i", "n", "i", "t" >> :> [ syntax |-> << "t", "o", "o", "l", " ", "i", "n", "i", "t", " ", "[", "-", "-", "c", "o", "n", "f", "i", "g", " ", "<", "p", "a", "t", "h", ">", "]" >> ])
      @@ (<< "f", "e", "t", "c", "h" >> :> [ syntax |-> << "t", "o", "o", "l", " ", "f", "e", "t", "c", "h", " ", "<", "u", "r", "l", ">" >>,
                         args |-> << [ name |-> << "u", "r", "l" >>, type |-> "string", required |-> TRUE ] >> ])
      @@ (<< "c", "o", "p", "y" >> :> [ syntax |-> << "t", "o", "o", "l", " ", "c", "o", "p", "y", " ", "<", "s", "r", "c", ">", " ", "<", "d", "s", "t", ">", " ", "[", "<", "n", ">", "]" >>,
                        args |-> << [ name |-> << "s", "r", "c" >>, type |-> "string", required |-> TRUE ],
                                    [ name |-> << "d", "s", "t" >>, type |-> "string", required |-> TRUE ],
                                    [ name |-> << "n" >>, type |-> "int", required |-> FALSE ] >> ])
      @@ (<< "r", "e", "f", "r", "e", "s", "h" >> :> [ syntax |-> << "t", "o", "o", "l", " ", "r", "e", "f", "r", "e", "s", "h", " ", "<", "s", "c", "o", "p", "e", ">", " ", "[", "-", "-", "t", "a", "g", " ", "<", "t", "a", "g", ">", "]" >>,
                           args |-> << [ name |-> << "s", "c", "o", "p", "e" >>, type |-> "string", default |-> << "a", "l", "l" >> ] >> ]) ]

\* the values given to the arguments: plain ones, and ones that hold the
\* characters of the template syntax
BuildValues ==
  << StrVal(<< "7" >>), StrVal(<< "a", " ", "b" >>), StrVal(<< "<", "x", ">" >>), StrVal(<< "[" >>), StrVal(<< "]", ">" >>),
     ListVal(<< << "<", "x", ">" >>, << "b" >> >>) >>

\* the command names given: the defined ones and one that is not
BuildCommands == DOMAIN BuildSkill.commands \cup { << "n", "o", "n", "e", "x", "i", "s", "t", "e", "n", "t" >> }

\* the keys of the args given with a command: the names of its declared
\* arguments, or the key of the --config flag when it declares none
BuildKeys(command_path) ==
  IF ~ Known(BuildSkill, command_path) THEN {}
  ELSE LET arglist == Get(BuildSkill.commands[command_path], "args", << >>)
       IN  IF arglist = << >> THEN { << "c", "o", "n", "f", "i", "g" >> }
           ELSE { arglist[i].name : i \in 1..Len(arglist) }

\* what a call left: the operation and what it returned or raised
BOut(op, ret) == [op |-> op, ret |-> ret]

\* CommandExecutor(BuildSkill), a command name and an args dictionary (a
\* flag is given a str, a positional argument a str or a list of strs)
BInit ==
  /\ ExecutorIdle
  /\ RuntimeIdle
  /\ QueryIdle
  /\ VersionIdle
  /\ \E command_path \in BuildCommands :
       \E keys \in SUBSET BuildKeys(command_path) :
         \E f \in [keys -> 1..Len(BuildValues)] :
           /\ \A k \in keys : k = << "c", "o", "n", "f", "i", "g" >> => BuildValues[f[k]].t = "str"
           /\ bin = [command |-> command_path, args |-> [k \in keys |-> BuildValues[f[k]]]]
  /\ bout = BOut("none", Return(<< >>))

\* executor.build_command(command, args)
BuildCommand ==
  /\ bout.op = "none"
  /\ bout' = BOut("build_command", build_command(BuildSkill, bin.command, bin.args))
  /\ UNCHANGED <<bin, vars, rtvars, qvars, vvars>>

\* executor.validate_args(command, args)
ValidateArgs ==
  /\ bout.op = "none"
  /\ bout' = BOut("validate_args", Return(validate_args(BuildSkill, bin.command, bin.args)))
  /\ UNCHANGED <<bin, vars, rtvars, qvars, vvars>>

BNext ==
  \/ BuildCommand
  \/ ValidateArgs

SpecBuild == BInit /\ [][BNext]_<<vars, rtvars, qvars, vvars, bvars>>

\* ------------------------------- properties of build_command, validate_args
\* the args given lack a required argument of the command given
LacksRequired ==
  /\ Known(BuildSkill, bin.command)
  /\ \E i \in 1..Len(Get(BuildSkill.commands[bin.command], "args", << >>)) :
       LET arg == BuildSkill.commands[bin.command].args[i]
       IN  Get(arg, "required", FALSE) /\ arg.name \notin DOMAIN bin.args

\* the text holds no `<name>` token and no bracketed segment with one
NothingUnfilled(text) ==
  \A i \in 1..Len(text) : PlaceholderEnd(text, i) = 0 /\ MatchOptional(text, i) = 0

\* the errors that report a missing required argument
MissingErrors(errors) ==
  SelectSeq(errors, LAMBDA e : StartsWith(e, << "M", "i", "s", "s", "i", "n", "g", " ", "r", "e", "q", "u", "i", "r", "e", "d", " ", "a", "r", "g", "u", "m", "e", "n", "t", ":", " " >>))

\* one error for each declared argument that is required and absent
ExpectedMissing(command_path, args) ==
  LET arglist == Get(BuildSkill.commands[command_path], "args", << >>)
      absent == SelectSeq(arglist,
                          LAMBDA arg : Get(arg, "required", FALSE) /\ arg.name \notin DOMAIN args)
  IN  [i \in 1..Len(absent) |-> << "M", "i", "s", "s", "i", "n", "g", " ", "r", "e", "q", "u", "i", "r", "e", "d", " ", "a", "r", "g", "u", "m", "e", "n", "t", ":", " " >> \o absent[i].name]

\* C27: build and argument validation are independent paths. For a known
\* command and any args, build_command returns a string, also when a
\* required positional argument is missing, in which no unfilled
\* placeholder token and no unfilled optional bracketed segment remains;
\* validate_args on the same input reports one 'Missing required argument'
\* error for each required argument that is absent from args.
C27_BuildAndValidate ==
  Known(BuildSkill, bin.command) =>
    /\ bout.op = "build_command" =>
         /\ bout.ret.kind = "return"
         /\ NothingUnfilled(bout.ret.value)
    /\ bout.op = "validate_args" =>
         /\ MissingErrors(bout.ret.value) = ExpectedMissing(bin.command, bin.args)
         /\ build_command(BuildSkill, bin.command, bin.args).kind = "return"

\* build_command has returned on args that lack the two required arguments
\* of the command
C27_Witness ==
  /\ bout.op = "build_command"
  /\ bout.ret.kind = "return"
  /\ LacksRequired
  /\ Len(validate_args(BuildSkill, bin.command, bin.args)) >= 2

\* sub in text
Contains(text, sub) ==
  \E i \in 1..(Len(text) - Len(sub) + 1) : SubSeq(text, i, i + Len(sub) - 1) = sub

\* the declared arguments of the command given that are supplied and whose
\* placeholder occurs in the syntax template
SuppliedArgs ==
  LET cmd_def == BuildSkill.commands[bin.command]
      arglist == Get(cmd_def, "args", << >>)
  IN  SelectSeq(arglist,
                LAMBDA arg : /\ arg.name \in DOMAIN bin.args
                             /\ Contains(cmd_def.syntax, << "<" >> \o arg.name \o << ">" >>))

\* C28: build_command on a known command returns a string in which every
\* supplied positional argument whose placeholder occurs in the syntax
\* template appears as its shell-quoted value (a list as its quoted
\* elements joined by spaces), for every supplied value, those that hold
\* the characters <, >, [ or ] included.
C28_SuppliedValuesAppear ==
  (bout.op = "build_command" /\ Known(BuildSkill, bin.command)) =>
    /\ bout.ret.kind = "return"
    /\ \A i \in 1..Len(SuppliedArgs) :
         Contains(bout.ret.value, Positional(bin.args[SuppliedArgs[i].name]))

\* -------------------------------------- properties of the three registries
\* C29: in every reachable state of the runtime, after any sequence of
\* loads, unloads, queries, executes, clear_cache and reset_state, failed
\* ones included, the registry of raw documents, the registry of typed
\* models and the map of State Trackers have the same set of names.
C29_RegistriesAgree ==
  /\ DOMAIN skills = DOMAIN models
  /\ DOMAIN models = DOMAIN state

\* one of two loaded documents has been unloaded
C29_Witness ==
  /\ rlast.op = "unload_skill"
  /\ rlast.ret.kind = "return"
  /\ rlast.ret.value
  /\ DOMAIN skills # {}
  /\ rlast.name \notin DOMAIN state

\* ------------------------------------------------- properties of a reload
\* a step of the runtime where documents are loaded over loaded ones: the
\* State Trackers are at work, and a cached query marks a name as loaded
\* since the query
ReloadNext ==
  \/ \E i \in 1..Len(Texts) : LoadSkillString(Texts[i])
  \/ \E n \in RtNames : UnloadSkill(n)
  \/ \E n \in RtNames : Query(n, PATH_decisions, FiltersTwo, TRUE)
  \/ \E n \in RtNames, c \in RtCommands : RtExecute(n, c)

SpecReload == RtInit /\ [][ReloadNext]_<<vars, rtvars, qvars, vvars, bvars>>

\* the step is a load that returned a name that was registered already
Reloads ==
  /\ rlast'.op = "load_skill_string"
  /\ rlast'.ret.kind = "return"
  /\ rlast'.ret.value \in DOMAIN skills

\* the entities the document declares in its state section
Declared == { Skill.state.entities[i].name : i \in 1..Len(Skill.state.entities) }

\* the commands of RtCommands that require an entity
Requiring == { c \in RtCommands : Get(Skill.commands[c], "requires", << >>) # << >> }

\* C30: a load under a name that is registered already replaces the
\* registered document and installs a fresh State Tracker for the name.
\* Right after the load every entity the document declares is invalid with
\* no value, the entities created dynamically under the previous tracker
\* no longer exist, and a command that requires an entity signals
\* InvalidStateError; an execute of such a command signals it whenever a
\* required entity is not valid, that is until the entity is created again.
C30_ReloadInstallsFreshTracker ==
  [][ /\ Reloads =>
           LET name == rlast'.ret.value
           IN  /\ models'[name] = load_string(strict_version, rlast'.arg).value
               /\ skills'[name] = to_dict(models'[name])
               /\ DOMAIN state'[name] = Declared
               /\ \A e \in Declared :
                    /\ ~ state'[name][e].valid
                    /\ state'[name][e].value = None
               /\ \A e \in DOMAIN state[name] \ Declared : e \notin DOMAIN state'[name]
               /\ \A c \in Requiring :
                    SkillRuntime_execute(Runtime(skills', models', state', cache'),
                                         name, c, EmptyDict, FALSE, "None", NoProc).ret.kind
                      = "InvalidStateError"
      /\ (/\ ExecutesOnLoaded
          /\ \E i \in 1..Len(Get(Skill.commands[rlast'.arg.command_path], "requires", << >>)) :
               ~ is_valid(state[rlast'.name], Skill.commands[rlast'.arg.command_path].requires[i]))
           => rlast'.ret.kind = "InvalidStateError"
    ]_<<vars, rtvars, qvars, vvars, bvars>>

\* document a has been loaded again: the cache still holds a result of a
\* query made on it (an unload would have dropped it), and its tracker is
\* the fresh one while the tracker of b holds the token that fetch created
C30_Witness ==
  /\ rlast.op = "load_skill_string"
  /\ rlast.ret.kind = "return"
  /\ rlast.ret.value = << "a" >>
  /\ \E k \in DOMAIN cache : StartsWith(k, << "a", ":" >>)
  /\ DOMAIN state[<< "a" >>] = Declared
  /\ << "b" >> \in DOMAIN state
  /\ is_valid(state[<< "b" >>], "token")

====
